---------------------------- MODULE Spec2Model ----------------------------
(***************************************************************************)
(* A model of the Notability note parser and renderer (src/parser.ts,      *)
(* src/main.ts): binary blob decoding, colour decoding, the search for the *)
(* curve record, curve assembly and stroke path construction.              *)
(*                                                                         *)
(* Numbers.  A JavaScript number is modelled as a record [k, v]:           *)
(*   k = "num"  a finite value, v counts units of 1/Scale;                 *)
(*   k = "nan", "inf", "ninf"  NaN, +Infinity, -Infinity (v = 0).          *)
(* The value `undefined` (a read past the end of an array) is Undefined.   *)
(* Int32 values are plain integers in -2^31 .. 2^31-1.                     *)
(***************************************************************************)
EXTENDS Integers, Sequences, FiniteSets, TLC

VARIABLES
    \* decodeData (src/parser.ts:243)
    data, type, decodeOut, decodePc,
    \* rgbaIntToColor (src/parser.ts:275)
    rgbaBytes, rgba, color, colorPc,
    \* extractCurveData (src/parser.ts:184): the decoded arrays, the loop
    \* index, the shared point cursor, the curves built so far, the outcome
    pointsData, numPoints, widths, colors, i, pointIndex, curves,
    extractOut, extractPc,
    \* history: the numPoints index each element of curves was built from
    origin,
    \* searchForCurveData (src/parser.ts:131): the value graph and its root,
    \* the recursion stack, the visited set, the value returned, the outcome
    graph, root, stack, visited, curveData, searchOut, searchPc,
    \* history: the objects added to visited, in order; the number of calls
    expanded, calls,
    \* drawCurve (src/parser.ts:358): the curve, the filtered points, the
    \* loop index, and the drawing context: current style, saved styles,
    \* current path, the strokes issued
    curve, validPoints, di, ctxStyle, ctxStack, path, strokes, drawPc,
    \* renderNotabilityFile (src/parser.ts:299): the document, the setting
    \* cropToContent, whether the canvas gives a 2d context, the content box,
    \* the crop rectangle, the cropped size, the canvas, the origin of the
    \* context, the curve index, and the calls made on canvas and context
    noteData, cropToContent, hasContext, box, crop, cropped, canvas, ctxOrigin,
    ci, events, renderPc,
    \* parseNoteFile (src/parser.ts:8, src/main.ts:168): the archive read, the
    \* entry names, the loop index, the entry chosen, the number of plist
    \* decodings made, the outcome
    archive, allFiles, fi, sessionPlistFile, plistDecodes, parseOut, parsePc,
    \* extractCurveData (src/parser.ts:179): the record the search located,
    \* the four values looked up on it, the four decoded arrays
    located, picked, decodedFields, fieldsPc,
    \* NotabilityView (src/main.ts:19): this.file, the children of the content
    \* element, the activations of render() with the place each is suspended
    \* at and the value thrown, the number of activations begun, whether
    \* onOpen ran
    file, contentChildren, activations, started, viewPc,
    \* history: the elements created on the content element, in order
    createdEls

decodeVars == <<data, type, decodeOut, decodePc>>
colorVars == <<rgbaBytes, rgba, color, colorPc>>
extractVars == <<pointsData, numPoints, widths, colors, i, pointIndex, curves,
                 extractOut, extractPc, origin>>
searchVars == <<graph, root, stack, visited, curveData, searchOut, searchPc,
                expanded, calls>>
drawVars == <<curve, validPoints, di, ctxStyle, ctxStack, path, strokes, drawPc>>
renderVars == <<noteData, cropToContent, hasContext, box, crop, cropped, canvas,
                ctxOrigin, ci, events, renderPc>>
parseVars == <<archive, allFiles, fi, sessionPlistFile, plistDecodes, parseOut,
               parsePc>>
fieldVars == <<located, picked, decodedFields, fieldsPc>>
viewVars == <<file, contentChildren, activations, started, viewPc, createdEls>>
restVars == <<renderVars, parseVars, fieldVars, viewVars>>
vars == <<decodeVars, colorVars, extractVars, searchVars, drawVars, restVars>>

---------------------------------------------------------------------------
(* Bounds of the model *)

\* longest byte buffer handed to decodeData
MaxBytes == 9
\* most (x,y) pairs in the decoded points array
MaxPairs == 4
\* most entries in the decoded counts array
MaxCurves == 2
\* objects on the chain of the deep value graphs
ChainLen == 17
\* most points of a curve handed to drawCurve
MaxPoints == 4
\* most (x,y) pairs of the arrays the document size is computed from
MaxSizePairs == 3
\* most curves of a document handed to renderNotabilityFile
MaxDocCurves == 2
\* most entries of an archive
MaxEntries == 3
\* most of the twelve curve keys present on the located record
MaxKeys == 4
\* most activations of render() on one view
MaxRenders == 2

---------------------------------------------------------------------------
(* Numbers *)

\* fixed-point units per 1.0 for finite values
Scale == 8

\* a finite double is v / Scale + t * 2^-51: a coarse part on the grid of
\* 1/Scale and a fine part on the grid of 2^-51 (one half of the distance
\* from 1.0 to the next double)
Fine(n, f) == [k |-> "num", v |-> n, t |-> f]
Num(n) == Fine(n, 0)
NaN == [k |-> "nan", v |-> 0, t |-> 0]
PosInf == [k |-> "inf", v |-> 0, t |-> 0]
NegInf == [k |-> "ninf", v |-> 0, t |-> 0]
Undefined == [k |-> "undefined", v |-> 0, t |-> 0]

isNaN(x) == x.k = "nan"
isFinite(x) == x.k = "num"

RECURSIVE Pow2(_)
Pow2(n) == IF n = 0 THEN 1 ELSE 2 * Pow2(n - 1)

RECURSIVE Log2(_)
Log2(m) == IF m <= 1 THEN 0 ELSE 1 + Log2(m \div 2)

Abs(n) == IF n < 0 THEN 0 - n ELSE n

\* the unit in the last place (53-bit significand) of the double nearest
\* n / Scale + f * 2^-51, n # 0, in units of 2^-51: a value in
\* [2^e, 2^(e+1)) has the unit 2^(e-52)
Ulp(n, f) ==
    LET p == Log2(Abs(n))
        below == Abs(n) = Pow2(p) /\ ((n > 0 /\ f < 0) \/ (n < 0 /\ f > 0))
        e == (p - Log2(Scale)) - (IF below THEN 1 ELSE 0)
    IN  IF e <= 1 THEN 1 ELSE Pow2(e - 1)

\* f rounded to the nearest multiple of u, ties to the even multiple
RoundToEven(f, u) ==
    LET q == f \div u
        r == f - q * u
    IN  CASE 2 * r < u -> q * u
          [] 2 * r > u -> (q + 1) * u
          [] OTHER -> IF q % 2 = 0 THEN q * u ELSE (q + 1) * u

\* the double nearest n / Scale + f * 2^-51 (round to nearest, ties to even)
Double(n, f) == IF n = 0 THEN Fine(0, f) ELSE Fine(n, RoundToEven(f, Ulp(n, f)))

Min32 == -2147483647 - 1

---------------------------------------------------------------------------
(* Typed array views over a byte buffer (little-endian, 4 bytes an element) *)

\* the Int32 whose little-endian bytes are b0 b1 b2 b3
Int32FromBytes(b0, b1, b2, b3) ==
    LET low == b0 + 256 * b1 + 65536 * b2
    IN  IF b3 < 128 THEN low + 16777216 * b3
        ELSE (low + 16777216 * (b3 - 128)) + Min32

\* the binary32 value whose little-endian bytes are b0 b1 b2 b3; finite values
\* are in the model when they lie on the 1/Scale grid (exponent 124..150)
Float32FromBytes(b0, b1, b2, b3) ==
    LET sign == IF b3 >= 128 THEN -1 ELSE 1
        e == (b3 % 128) * 2 + (b2 \div 128)
        m == (b2 % 128) * 65536 + b1 * 256 + b0
        sig == 8388608 + m
    IN  CASE e = 255 /\ m # 0 -> NaN
          [] e = 255 /\ m = 0 -> IF sign = 1 THEN PosInf ELSE NegInf
          [] e = 0 /\ m = 0 -> Num(0)
          [] e >= 147 /\ e <= 150 -> Num(sign * sig * Pow2(e - 147))
          [] e >= 124 /\ e < 147 /\ sig % Pow2(147 - e) = 0 ->
                Num(sign * (sig \div Pow2(147 - e)))

\* element k (from 0) of a 4-byte-element view of buffer
ElementAt(buffer, k, kind) ==
    LET b0 == buffer[4 * k + 1]
        b1 == buffer[4 * k + 2]
        b2 == buffer[4 * k + 3]
        b3 == buffer[4 * k + 4]
    IN  IF kind = "float" THEN Float32FromBytes(b0, b1, b2, b3)
        ELSE Int32FromBytes(b0, b1, b2, b3)

Returned(v) == [threw |-> FALSE, error |-> "", value |-> v]
Thrown(e) == [threw |-> TRUE, error |-> e, value |-> <<>>]

\* new Float32Array(buffer) / new Int32Array(buffer) followed by Array.from:
\* the constructor throws a RangeError unless the byte length is a multiple
\* of the element size
TypedArrayFrom(buffer, kind) ==
    IF Len(buffer) % 4 # 0 THEN Thrown("RangeError")
    ELSE Returned([k \in 1..(Len(buffer) \div 4) |-> ElementAt(buffer, k - 1, kind)])

\* data.buffer.slice(data.byteOffset, data.byteOffset + data.byteLength)
Slice(buffer, byteOffset, byteLength) ==
    SubSeq(buffer, byteOffset + 1, byteOffset + byteLength)

\* decodeData(data, type).  data is a record [tag, bytes, byteOffset,
\* byteLength, inner]: tag "falsy" (null, undefined, ""), "ArrayBuffer",
\* "Uint8Array" (a view of bytes), "string" (bytes are the char codes atob
\* returns), "object" (inner is its .data property, "falsy" when it has
\* none).
RECURSIVE decodeData(_, _)
decodeData(d, t) ==
    CASE d.tag = "falsy" -> Returned(<<>>)
      [] d.tag = "ArrayBuffer" -> TypedArrayFrom(d.bytes, t)
      [] d.tag = "Uint8Array" ->
            TypedArrayFrom(Slice(d.bytes, d.byteOffset, d.byteLength), t)
      [] d.tag = "string" -> TypedArrayFrom(d.bytes, t)
      [] d.tag = "object" ->
            IF d.inner.tag # "falsy" THEN decodeData(d.inner, t)
            ELSE Returned(<<>>)

---------------------------------------------------------------------------
(* decodeData as a call: Init draws the argument, DecodeCall runs it *)

\* element bit patterns the buffers are built from (little-endian bytes):
\* 0.0, 1.0, 2.5, NaN, +Infinity, -Infinity, and ff ff ff ff (int -1)
WordSamples ==
    { <<0, 0, 0, 0>>, <<0, 0, 128, 63>>, <<0, 0, 32, 64>>, <<0, 0, 192, 127>>,
      <<0, 0, 128, 127>>, <<0, 0, 128, 255>>, <<255, 255, 255, 255>> }

\* bytes of an incomplete trailing element
TailBytes == {0, 255}

RECURSIVE WordSeqs(_)
WordSeqs(n) ==
    IF n = 0 THEN { <<>> }
    ELSE { w \o s : w \in WordSamples, s \in WordSeqs(n - 1) }

RECURSIVE TailSeqs(_)
TailSeqs(n) ==
    IF n = 0 THEN { <<>> }
    ELSE { <<b>> \o s : b \in TailBytes, s \in TailSeqs(n - 1) }

\* every buffer of 4k+r bytes (r < 4) with at most MaxBytes bytes
Buffers ==
    UNION { { w \o t : w \in WordSeqs(k), t \in TailSeqs(r) } :
            <<k, r>> \in { kr \in (0..(MaxBytes \div 4)) \X (0..3) :
                           4 * kr[1] + kr[2] <= MaxBytes } }

Falsy == [tag |-> "falsy"]
ArrayBufferOf(b) == [tag |-> "ArrayBuffer", bytes |-> b]
StringOf(b) == [tag |-> "string", bytes |-> b]
Uint8ArrayOf(b, off, len) ==
    [tag |-> "Uint8Array", bytes |-> b, byteOffset |-> off, byteLength |-> len]
ObjectOf(inner) == [tag |-> "object", inner |-> inner]

\* views start on an element boundary of the underlying buffer
Views ==
    UNION { { Uint8ArrayOf(b, off, len) : len \in 0..(Len(b) - off) } :
            <<b, off>> \in { bo \in Buffers \X {0, 4} : bo[2] <= Len(bo[1]) } }

Blobs == { ArrayBufferOf(b) : b \in Buffers } \cup Views

DataArgs ==
    {Falsy} \cup Blobs \cup { StringOf(b) : b \in Buffers }
    \cup { ObjectOf(d) : d \in {Falsy} \cup { ArrayBufferOf(b) : b \in Buffers } }

\* the bytes a blob argument presents to the typed array constructor
BlobBytes(d) ==
    IF d.tag = "Uint8Array" THEN Slice(d.bytes, d.byteOffset, d.byteLength)
    ELSE d.bytes

InitDecode ==
    /\ data \in DataArgs
    /\ type \in {"float", "int"}
    /\ decodeOut = Returned(<<>>)
    /\ decodePc = "call"

DecodeCall ==
    /\ decodePc = "call"
    /\ decodeOut' = decodeData(data, type)
    /\ decodePc' = "done"
    /\ UNCHANGED <<data, type, colorVars, extractVars, searchVars, drawVars, restVars>>

---------------------------------------------------------------------------
(* rgbaIntToColor *)

\* x >>> n for an Int32 x and 1 <= n <= 31
UShr(x, n) ==
    IF x >= 0 THEN x \div Pow2(n)
    ELSE (((x + 2147483647) + 1) \div Pow2(n)) + Pow2(31 - n)

\* x & 0xFF
LowByte(x) == x % 256

\* the colour string 'rgba(r, g, b, a)', a = a255 / 255
Rgba(r, g, b, a255) == [r |-> r, g |-> g, b |-> b, a255 |-> a255]

\* rgbaIntToColor without the swapped-order fallback
rgbaIntToColorNoFallback(x) ==
    IF x = 0 THEN Rgba(0, 0, 0, 255)
    ELSE Rgba(LowByte(x), LowByte(UShr(x, 8)), LowByte(UShr(x, 16)),
              LowByte(UShr(x, 24)))

rgbaIntToColor(x) ==
    IF x = 0 THEN Rgba(0, 0, 0, 255)
    ELSE LET a == LowByte(UShr(x, 24))
             b == LowByte(UShr(x, 16))
             g == LowByte(UShr(x, 8))
             r == LowByte(x)
         IN  IF a = 0 /\ (r > 0 \/ g > 0 \/ b > 0)
             THEN Rgba(LowByte(UShr(x, 24)), LowByte(UShr(x, 16)),
                       LowByte(UShr(x, 8)), LowByte(x))
             ELSE Rgba(r, g, b, a)

\* byte values the packed colours are built from
ByteSamples == {0, 1, 128, 255}

NoColor == Rgba(0, 0, 0, 0)

InitColor ==
    /\ rgbaBytes \in ByteSamples \X ByteSamples \X ByteSamples \X ByteSamples
    /\ rgba = 0
    /\ color = NoColor
    /\ colorPc = "read"

\* an element of the Int32Array of colours
ReadColor ==
    /\ colorPc = "read"
    /\ rgba' = Int32FromBytes(rgbaBytes[1], rgbaBytes[2], rgbaBytes[3], rgbaBytes[4])
    /\ colorPc' = "convert"
    /\ UNCHANGED <<rgbaBytes, color, decodeVars, extractVars, searchVars, drawVars, restVars>>

ConvertColor ==
    /\ colorPc = "convert"
    /\ color' = rgbaIntToColor(rgba)
    /\ colorPc' = "done"
    /\ UNCHANGED <<rgbaBytes, rgba, decodeVars, extractVars, searchVars, drawVars, restVars>>

---------------------------------------------------------------------------
(* Number operations used by extractCurveData *)

\* Math.max(a, b)
MathMax(a, b) ==
    CASE isNaN(a) \/ isNaN(b) -> NaN
      [] a.k = "inf" \/ b.k = "inf" -> PosInf
      [] a.k = "ninf" -> b
      [] b.k = "ninf" -> a
      [] OTHER -> IF a.v > b.v \/ (a.v = b.v /\ a.t >= b.t) THEN a ELSE b

\* Math.min(a, b)
MathMin(a, b) ==
    CASE isNaN(a) \/ isNaN(b) -> NaN
      [] a.k = "ninf" \/ b.k = "ninf" -> NegInf
      [] a.k = "inf" -> b
      [] b.k = "inf" -> a
      [] OTHER -> IF a.v < b.v \/ (a.v = b.v /\ a.t <= b.t) THEN a ELSE b

\* Math.ceil(x)
MathCeil(x) ==
    IF x.k = "num"
    THEN IF x.t > 0 THEN Num(((x.v \div Scale) + 1) * Scale)
         ELSE Num((0 - ((0 - x.v) \div Scale)) * Scale)
    ELSE x

\* x + c for a finite constant c (in units of 1/Scale)
Plus(x, c) == IF x.k = "num" THEN Double(x.v + c, x.t) ELSE x

\* arr[idx] for a 0-based idx: undefined outside the array
At(arr, idx) == IF idx >= 0 /\ idx < Len(arr) THEN arr[idx + 1] ELSE Undefined

\* the truth value JavaScript gives a number or undefined
Truthy(x) ==
    ~(x.k = "undefined" \/ x.k = "nan" \/ (x.k = "num" /\ x.v = 0 /\ x.t = 0))

---------------------------------------------------------------------------
(* extractCurveData: assembly of the decoded arrays (src/parser.ts:189-237) *)

Point(x, y) == [x |-> x, y |-> y]

\* the test of parser.ts:205 on the pair at the cursor
KeepsPair(x, y) ==
    x.k # "undefined" /\ y.k # "undefined" /\ ~isNaN(x) /\ ~isNaN(y)

\* the inner loop with pointIndex++ inside the validity test
RECURSIVE InnerLoopAdvanceOnValid(_, _, _)
InnerLoopAdvanceOnValid(pd, cursor, n) ==
    IF n <= 0 THEN [points |-> <<>>, pointIndex |-> cursor]
    ELSE LET x == At(pd, cursor * 2)
             y == At(pd, cursor * 2 + 1)
             keep == KeepsPair(x, y)
             rest == InnerLoopAdvanceOnValid(pd, IF keep THEN cursor + 1 ELSE cursor,
                                             n - 1)
         IN  [points |-> (IF keep THEN <<Point(x, y)>> ELSE <<>>) \o rest.points,
              pointIndex |-> rest.pointIndex]

\* the inner loop (parser.ts:200-209): n iterations from the cursor, giving
\* the points kept and the cursor afterwards
RECURSIVE InnerLoop(_, _, _)
InnerLoop(pd, cursor, n) ==
    IF n <= 0 THEN [points |-> <<>>, pointIndex |-> cursor]
    ELSE LET x == At(pd, cursor * 2)
             y == At(pd, cursor * 2 + 1)
             rest == InnerLoop(pd, cursor + 1, n - 1)
         IN  [points |-> (IF KeepsPair(x, y) THEN <<Point(x, y)>> ELSE <<>>)
                            \o rest.points,
              pointIndex |-> rest.pointIndex]

\* widths[idx] || 2
WidthOrDefault(ws, idx) ==
    IF Truthy(At(ws, idx)) THEN At(ws, idx) ELSE Num(2 * Scale)

\* colors[idx] || 0
ColorOrZero(cs, idx) == IF idx >= 0 /\ idx < Len(cs) THEN cs[idx + 1] ELSE 0

\* a curve pushed whatever the number of its points
PushCurveAlways(cvs, points, idx, ws, cs) ==
    Append(cvs, [points |-> points,
                 width |-> WidthOrDefault(ws, idx),
                 color |-> rgbaIntToColor(ColorOrZero(cs, idx))])

\* a curve styled by its position in the output
PushCurveByOutputIndex(cvs, points, idx, ws, cs) ==
    IF Len(points) >= 2
    THEN Append(cvs, [points |-> points,
                      width |-> WidthOrDefault(ws, Len(cvs)),
                      color |-> rgbaIntToColor(ColorOrZero(cs, Len(cvs)))])
    ELSE cvs

\* parser.ts:211-218: the curves after the points of counts index idx
PushCurve(cvs, points, idx, ws, cs) ==
    IF Len(points) >= 2
    THEN Append(cvs, [points |-> points,
                      width |-> WidthOrDefault(ws, idx),
                      color |-> rgbaIntToColor(ColorOrZero(cs, idx))])
    ELSE cvs

\* every point of every curve, in order
RECURSIVE AllPoints(_)
AllPoints(cvs) ==
    IF cvs = <<>> THEN <<>> ELSE Head(cvs).points \o AllPoints(Tail(cvs))

\* parser.ts:225-231: the running maximum from 0 of one coordinate
RECURSIVE MaxOf(_, _, _)
MaxOf(pts, axis, acc) ==
    IF pts = <<>> THEN acc
    ELSE MaxOf(Tail(pts), axis,
               MathMax(acc, IF axis = "x" THEN Head(pts).x ELSE Head(pts).y))

\* the size without the margin of 50
DocumentSizeNoMargin(cvs) ==
    [width |-> MathMax(MathCeil(MaxOf(AllPoints(cvs), "x", Num(0))), Num(800 * Scale)),
     height |-> MathMax(MathCeil(MaxOf(AllPoints(cvs), "y", Num(0))), Num(1000 * Scale))]

\* parser.ts:233-237
DocumentSize(cvs) ==
    [width |-> MathMax(Plus(MathCeil(MaxOf(AllPoints(cvs), "x", Num(0))), 50 * Scale),
                       Num(800 * Scale)),
     height |-> MathMax(Plus(MathCeil(MaxOf(AllPoints(cvs), "y", Num(0))), 50 * Scale),
                        Num(1000 * Scale))]

\* the check of parser.ts:221 left out
NoCurvesNever(cvs) == FALSE

\* parser.ts:221
NoCurves(cvs) == Len(cvs) = 0

NoOutcome == [error |-> "", width |-> Num(0), height |-> Num(0)]
Failure(msg) == [error |-> msg, width |-> Num(0), height |-> Num(0)]

\* coordinate pairs the points array is built from: (1, 2), (850.5, 2.5),
\* (NaN, 1), (3, +Infinity)
PairSamples ==
    { <<Num(8), Num(16)>>, <<Num(6804), Num(20)>>, <<NaN, Num(8)>>,
      <<Num(24), PosInf>> }

RECURSIVE PairSeqs(_)
PairSeqs(n) ==
    IF n = 0 THEN { <<>> }
    ELSE { p \o s : p \in PairSamples, s \in PairSeqs(n - 1) }

\* whole pairs, or whole pairs and a last x without its y
PointArrays ==
    UNION { PairSeqs(n) : n \in 0..MaxPairs }
    \cup UNION { { s \o <<Num(40)>> : s \in PairSeqs(n) } : n \in 0..(MaxPairs - 2) }

CountSamples == {-1, 0, 1, 2}

RECURSIVE SeqsUpTo(_, _)
SeqsUpTo(S, n) ==
    IF n = 0 THEN { <<>> }
    ELSE SeqsUpTo(S, n - 1) \cup
         { Append(s, e) : s \in { t \in SeqsUpTo(S, n - 1) : Len(t) = n - 1 }, e \in S }

\* the widths and colours arrays: absent, (4.0, 6.0 / 0xFF0000FF, 255),
\* (0.0, +Infinity / 0, 0x00FF8001), (NaN, 0.0 / 255)
AttrInputs ==
    { [widths |-> <<>>, colors |-> <<>>],
      [widths |-> <<Num(32), Num(48)>>, colors |-> <<-16776961, 255>>],
      [widths |-> <<Num(0), PosInf>>, colors |-> <<0, 16744449>>],
      [widths |-> <<NaN, Num(0)>>, colors |-> <<255>>] }

InitExtract ==
    /\ pointsData \in PointArrays
    /\ numPoints \in SeqsUpTo(CountSamples, MaxCurves)
    /\ \E a \in AttrInputs : widths = a.widths /\ colors = a.colors
    /\ i = 0
    /\ pointIndex = 0
    /\ curves = <<>>
    /\ origin = <<>>
    /\ extractOut = NoOutcome
    /\ extractPc = "check"

\* coordinate pairs around the thresholds of the document size: (-3, -1.5),
\* (750, 950), (750.125, 950.125), (850.5, 2.5), (3, 1200.25),
\* (-Infinity, +Infinity)
SizePairSamples ==
    { <<Num(-24), Num(-12)>>, <<Num(6000), Num(7600)>>, <<Num(6001), Num(7601)>>,
      <<Num(6804), Num(20)>>, <<Num(24), Num(9602)>>, <<NegInf, PosInf>> }

RECURSIVE SizePairSeqs(_)
SizePairSeqs(n) ==
    IF n = 0 THEN { <<>> }
    ELSE { p \o s : p \in SizePairSamples, s \in SizePairSeqs(n - 1) }

\* one curve of all the pairs, alone or after an empty curve, or no counts
InitSize ==
    /\ pointsData \in UNION { SizePairSeqs(n) : n \in 0..MaxSizePairs }
    /\ numPoints \in { <<>>, <<Len(pointsData) \div 2>>, <<0, Len(pointsData) \div 2>> }
    /\ widths = <<>>
    /\ colors = <<>>
    /\ i = 0
    /\ pointIndex = 0
    /\ curves = <<>>
    /\ origin = <<>>
    /\ extractOut = NoOutcome
    /\ extractPc = "check"

inputVars == <<pointsData, numPoints, widths, colors>>

\* parser.ts:189-191
ThrowNoData ==
    /\ extractPc = "check"
    /\ Len(pointsData) = 0 \/ Len(numPoints) = 0
    /\ extractOut' = Failure("No valid curve data decoded")
    /\ extractPc' = "threw"
    /\ UNCHANGED <<inputVars, i, pointIndex, curves, origin, decodeVars, colorVars, searchVars, drawVars, restVars>>

\* parser.ts:193-194
EnterLoop ==
    /\ extractPc = "check"
    /\ ~(Len(pointsData) = 0 \/ Len(numPoints) = 0)
    /\ curves' = <<>>
    /\ pointIndex' = 0
    /\ i' = 0
    /\ extractPc' = "loop"
    /\ UNCHANGED <<inputVars, origin, extractOut, decodeVars, colorVars, searchVars, drawVars, restVars>>

\* parser.ts:197-198: a non-positive count
SkipCount ==
    /\ extractPc = "loop"
    /\ i < Len(numPoints)
    /\ numPoints[i + 1] <= 0
    /\ i' = i + 1
    /\ UNCHANGED <<inputVars, pointIndex, curves, origin, extractOut, extractPc,
                   decodeVars, colorVars, searchVars, drawVars, restVars>>

\* parser.ts:200-218: one curve's points consumed and the curve pushed or dropped
BuildCurve ==
    /\ extractPc = "loop"
    /\ i < Len(numPoints)
    /\ numPoints[i + 1] > 0
    /\ LET got == InnerLoop(pointsData, pointIndex, numPoints[i + 1])
           next == PushCurve(curves, got.points, i, widths, colors)
       IN  /\ pointIndex' = got.pointIndex
           /\ curves' = next
           /\ origin' = IF Len(next) > Len(curves) THEN Append(origin, i) ELSE origin
    /\ i' = i + 1
    /\ UNCHANGED <<inputVars, extractOut, extractPc, decodeVars, colorVars, searchVars, drawVars, restVars>>

\* parser.ts:221-223
ThrowNoCurves ==
    /\ extractPc = "loop"
    /\ i >= Len(numPoints)
    /\ NoCurves(curves)
    /\ extractOut' = Failure("No valid curves created from data")
    /\ extractPc' = "threw"
    /\ UNCHANGED <<inputVars, i, pointIndex, curves, origin, decodeVars, colorVars, searchVars, drawVars, restVars>>

\* parser.ts:225-237
ReturnDocument ==
    /\ extractPc = "loop"
    /\ i >= Len(numPoints)
    /\ ~NoCurves(curves)
    /\ extractOut' = [error |-> ""] @@ DocumentSize(curves)
    /\ extractPc' = "returned"
    /\ UNCHANGED <<inputVars, i, pointIndex, curves, origin, decodeVars, colorVars, searchVars, drawVars, restVars>>

---------------------------------------------------------------------------
(* searchForCurveData (src/parser.ts:131-177) *)

MaxDepth == 15

\* a value is an object of the graph (its id, 1 ..) or NotObject: null, a
\* string, a number
NotObject == 0

\* an object: an array or a dictionary, whether one of curvespoints /
\* curvesPoints / CurvesPoints holds a (truthy) value on it, and its elements
\* or own enumerable property values in enumeration order
Object(kind, key, children) == [kind |-> kind, key |-> key, children |-> children]

Frame(obj, depth) == [obj |-> obj, depth |-> depth, idx |-> 0]

\* the visited test left out
NeverVisited(v, obj) == FALSE

\* parser.ts:135
IsVisited(v, obj) == obj \in v

\* parser.ts:138 (an array has no such property)
HasCurvesPoints(g, obj) == g[obj].kind = "dict" /\ g[obj].key

Top == stack[Len(stack)]
Pop == SubSeq(stack, 1, Len(stack) - 1)

\* small graphs: three objects with at most two children each
SmallIds == {1, 2, 3}
SmallChildren == SeqsUpTo(SmallIds \cup {NotObject}, 2)
SmallGraphs ==
    { [n \in SmallIds |->
          Object(IF n = arr THEN "array" ELSE "dict", n \in keys,
                 CASE n = 1 -> c1 [] n = 2 -> c2 [] OTHER -> c3)] :
      c1 \in SmallChildren, c2 \in SmallChildren,
      c3 \in { c \in SmallChildren : Len(c) <= 1 },
      keys \in SUBSET SmallIds, arr \in {0, 2} }

\* deep graphs: a chain 1 -> 2 -> ... -> ChainLen of dictionaries, one more
\* edge from -> to placed before or after the chain edge (none when from = 0),
\* and at most one object with the key
ChainIds == 1..ChainLen
ChainGraph(from, to, first, keyAt) ==
    [n \in ChainIds |->
        LET own == IF n < ChainLen THEN <<n + 1>> ELSE <<>>
            extra == IF n = from THEN <<to>> ELSE <<>>
        IN  Object("dict", n = keyAt, IF first THEN extra \o own ELSE own \o extra)]
ChainGraphs ==
    { ChainGraph(0, 0, FALSE, k) : k \in 0..ChainLen }
    \cup { ChainGraph(from, to, first, k) :
           from \in ChainIds, to \in ChainIds, first \in BOOLEAN, k \in 0..ChainLen }

InitSearch ==
    /\ \/ root = 1 /\ graph \in SmallGraphs \cup ChainGraphs
       \/ root = NotObject /\ graph \in { ChainGraph(0, 0, FALSE, k) : k \in 0..1 }
    /\ stack = <<>>
    /\ visited = {}
    /\ curveData = NotObject
    /\ searchOut = ""
    /\ searchPc = "start"
    /\ expanded = <<>>
    /\ calls = 0

\* parser.ts:127-129
ThrowInvalidPlist ==
    /\ searchPc = "start"
    /\ root = NotObject
    /\ searchOut' = "Invalid plist object"
    /\ searchPc' = "threw"
    /\ UNCHANGED <<graph, root, stack, visited, curveData, expanded, calls,
                   decodeVars, colorVars, extractVars, drawVars, restVars>>

\* parser.ts:159: searchForCurveData(plistObj)
CallSearch ==
    /\ searchPc = "start"
    /\ root # NotObject
    /\ stack' = <<Frame(root, 0)>>
    /\ calls' = 1
    /\ searchPc' = "search"
    /\ UNCHANGED <<graph, root, visited, curveData, searchOut, expanded,
                   decodeVars, colorVars, extractVars, drawVars, restVars>>

Entering == searchPc = "search" /\ stack # <<>> /\ Top.idx = 0
Iterating == searchPc = "search" /\ stack # <<>> /\ Top.idx > 0

\* parser.ts:132
ReturnTooDeep ==
    /\ Entering
    /\ Top.depth > MaxDepth
    /\ stack' = Pop
    /\ UNCHANGED <<graph, root, visited, curveData, searchOut, searchPc, expanded,
                   calls, decodeVars, colorVars, extractVars, drawVars, restVars>>

\* parser.ts:133
ReturnNotObject ==
    /\ Entering
    /\ ~(Top.depth > MaxDepth)
    /\ Top.obj = NotObject
    /\ stack' = Pop
    /\ UNCHANGED <<graph, root, visited, curveData, searchOut, searchPc, expanded,
                   calls, decodeVars, colorVars, extractVars, drawVars, restVars>>

\* parser.ts:135
ReturnVisited ==
    /\ Entering
    /\ ~(Top.depth > MaxDepth)
    /\ Top.obj # NotObject
    /\ IsVisited(visited, Top.obj)
    /\ stack' = Pop
    /\ UNCHANGED <<graph, root, visited, curveData, searchOut, searchPc, expanded,
                   calls, decodeVars, colorVars, extractVars, drawVars, restVars>>

\* parser.ts:136-140, and 145, 153 in every caller: the object is returned
\* through the whole recursion
ReturnMatch ==
    /\ Entering
    /\ ~(Top.depth > MaxDepth)
    /\ Top.obj # NotObject
    /\ ~IsVisited(visited, Top.obj)
    /\ HasCurvesPoints(graph, Top.obj)
    /\ visited' = visited \cup {Top.obj}
    /\ expanded' = Append(expanded, Top.obj)
    /\ curveData' = Top.obj
    /\ stack' = <<>>
    /\ searchPc' = "located"
    /\ UNCHANGED <<graph, root, searchOut, calls, decodeVars, colorVars, extractVars, drawVars, restVars>>

\* parser.ts:136-138: the object is marked and its children are iterated
Expand ==
    /\ Entering
    /\ ~(Top.depth > MaxDepth)
    /\ Top.obj # NotObject
    /\ ~IsVisited(visited, Top.obj)
    /\ ~HasCurvesPoints(graph, Top.obj)
    /\ visited' = visited \cup {Top.obj}
    /\ expanded' = Append(expanded, Top.obj)
    /\ stack' = [stack EXCEPT ![Len(stack)].idx = 1]
    /\ UNCHANGED <<graph, root, curveData, searchOut, searchPc, calls,
                   decodeVars, colorVars, extractVars, drawVars, restVars>>

\* the recursive call on the next child
Descend(kind) ==
    /\ Iterating
    /\ graph[Top.obj].kind = kind
    /\ Top.idx <= Len(graph[Top.obj].children)
    /\ stack' = Append([stack EXCEPT ![Len(stack)].idx = Top.idx + 1],
                       Frame(graph[Top.obj].children[Top.idx], Top.depth + 1))
    /\ calls' = calls + 1
    /\ UNCHANGED <<graph, root, visited, curveData, searchOut, searchPc, expanded,
                   decodeVars, colorVars, extractVars, drawVars, restVars>>

\* parser.ts:142-146
DescendArray == Descend("array")

\* parser.ts:150-154
DescendDict == Descend("dict")

\* parser.ts:147, 156
ReturnExhausted ==
    /\ Iterating
    /\ Top.idx > Len(graph[Top.obj].children)
    /\ stack' = Pop
    /\ UNCHANGED <<graph, root, visited, curveData, searchOut, searchPc, expanded,
                   calls, decodeVars, colorVars, extractVars, drawVars, restVars>>

\* parser.ts:159-177: the outermost call returned null; the diagnostic
\* JSON.stringify is inside try/catch
ThrowNoCurveData ==
    /\ searchPc = "search"
    /\ stack = <<>>
    /\ curveData' = NotObject
    /\ searchOut' = "No curve data found in plist"
    /\ searchPc' = "threw"
    /\ UNCHANGED <<graph, root, stack, visited, expanded, calls,
                   decodeVars, colorVars, extractVars, drawVars, restVars>>

---------------------------------------------------------------------------
(* drawCurve (src/parser.ts:358-403, src/main.ts:121-166) *)

\* a + b
Add(a, b) ==
    CASE isNaN(a) \/ isNaN(b) -> NaN
      [] a.k = "inf" -> IF b.k = "ninf" THEN NaN ELSE PosInf
      [] a.k = "ninf" -> IF b.k = "inf" THEN NaN ELSE NegInf
      [] b.k # "num" -> b
      [] OTHER -> Double(a.v + b.v, a.t + b.t)

\* -a
Negate(a) ==
    CASE a.k = "num" -> Fine(0 - a.v, 0 - a.t)
      [] a.k = "inf" -> NegInf
      [] a.k = "ninf" -> PosInf
      [] OTHER -> a

\* a - b
Minus(a, b) == Add(a, Negate(b))

\* a / 2 (exact: the finite inputs are even multiples on both grids)
Half(a) == IF a.k = "num" THEN Fine(a.v \div 2, a.t \div 2) ELSE a

\* an array entry that is null, or a point without numeric coordinates
NullPoint == Point(Undefined, Undefined)

\* the filter of parser.ts:368-370
IsDrawable(p) ==
    /\ p.x.k # "undefined" /\ p.y.k # "undefined"
    /\ ~isNaN(p.x) /\ ~isNaN(p.y)

MoveTo(p) == [op |-> "moveTo", cx |-> p.x, cy |-> p.y, x |-> p.x, y |-> p.y]
LineTo(p) == [op |-> "lineTo", cx |-> p.x, cy |-> p.y, x |-> p.x, y |-> p.y]
QuadraticCurveTo(cx, cy, x, y) ==
    [op |-> "quadraticCurveTo", cx |-> cx, cy |-> cy, x |-> x, y |-> y]

\* the loop body ending each segment at the midpoint with the previous point
QuadraticStepToPrevious(pts, k) ==
    LET prevPoint == pts[k]
        currPoint == pts[k + 1]
    IN  QuadraticCurveTo(currPoint.x, currPoint.y,
                         Half(Add(prevPoint.x, currPoint.x)),
                         Half(Add(prevPoint.y, currPoint.y)))

\* parser.ts:383-394: the loop body for index k (from 0) of the filtered points
QuadraticStep(pts, k) ==
    LET currPoint == pts[k + 1]
        nextPoint == pts[k + 2]
    IN  QuadraticCurveTo(currPoint.x, currPoint.y,
                         Half(Add(currPoint.x, nextPoint.x)),
                         Half(Add(currPoint.y, nextPoint.y)))

\* the colour string of a curve: an rgba() string, or the empty string
EmptyString == Rgba(-1, -1, -1, -1)
Black == Rgba(0, 0, 0, 255)

\* parser.ts:363-366
StrokeStyleOf(c) ==
    [strokeStyle |-> IF c.color # EmptyString THEN c.color ELSE Black,
     lineWidth |-> MathMax(IF Truthy(c.width) THEN c.width ELSE Num(2 * Scale),
                           Num(Scale \div 2)),
     lineCap |-> "round",
     lineJoin |-> "round"]

\* the context's style before any drawing
DefaultStyle ==
    [strokeStyle |-> Black, lineWidth |-> Num(Scale), lineCap |-> "butt",
     lineJoin |-> "miter"]

\* points handed to drawCurve: (0,0), (2,0), (2,2), (NaN,1), (+Infinity,1),
\* and a null entry
DrawPointSamples ==
    { Point(Num(0), Num(0)), Point(Num(16), Num(0)), Point(Num(16), Num(16)),
      Point(NaN, Num(8)), Point(PosInf, Num(8)), NullPoint }

\* widths 0, 0.25, 4 and colours '', 'rgba(255, 0, 0, 1)'
DrawStyleSamples ==
    { [width |-> Num(0), color |-> EmptyString],
      [width |-> Num(2), color |-> Rgba(255, 0, 0, 255)],
      [width |-> Num(32), color |-> Rgba(255, 0, 0, 255)] }

InitDraw ==
    /\ \E pts \in SeqsUpTo(DrawPointSamples, MaxPoints), st \in DrawStyleSamples :
          curve = [points |-> pts, width |-> st.width, color |-> st.color]
    /\ validPoints = <<>>
    /\ di = 0
    /\ ctxStyle = DefaultStyle
    /\ ctxStack = <<>>
    /\ path = <<>>
    /\ strokes = <<>>
    /\ drawPc = "start"

otherVars == <<decodeVars, colorVars, extractVars, searchVars, restVars>>

\* parser.ts:359
ReturnFewPoints ==
    /\ drawPc = "start"
    /\ Len(curve.points) < 2
    /\ drawPc' = "done"
    /\ UNCHANGED <<curve, validPoints, di, ctxStyle, ctxStack, path, strokes, otherVars>>

\* parser.ts:361-370: save, beginPath, the stroke style, the filter
BeginCurve ==
    /\ drawPc = "start"
    /\ ~(Len(curve.points) < 2)
    /\ ctxStack' = Append(ctxStack, ctxStyle)
    /\ path' = <<>>
    /\ ctxStyle' = StrokeStyleOf(curve)
    /\ validPoints' = SelectSeq(curve.points, IsDrawable)
    /\ drawPc' = "filtered"
    /\ UNCHANGED <<curve, di, strokes, otherVars>>

\* the return of parser.ts:372-375 without its restore
ReturnFewValidUnrestored ==
    /\ drawPc = "filtered"
    /\ Len(validPoints) < 2
    /\ drawPc' = "done"
    /\ UNCHANGED <<curve, validPoints, di, ctxStyle, ctxStack, path, strokes, otherVars>>

\* parser.ts:372-375
RestoreFewValid ==
    /\ drawPc = "filtered"
    /\ Len(validPoints) < 2
    /\ ctxStyle' = ctxStack[Len(ctxStack)]
    /\ ctxStack' = SubSeq(ctxStack, 1, Len(ctxStack) - 1)
    /\ drawPc' = "done"
    /\ UNCHANGED <<curve, validPoints, di, path, strokes, otherVars>>

\* parser.ts:377-379
DrawLine ==
    /\ drawPc = "filtered"
    /\ Len(validPoints) = 2
    /\ path' = path \o <<MoveTo(validPoints[1]), LineTo(validPoints[2])>>
    /\ drawPc' = "stroke"
    /\ UNCHANGED <<curve, validPoints, di, ctxStyle, ctxStack, strokes, otherVars>>

\* parser.ts:380-383
MoveToFirst ==
    /\ drawPc = "filtered"
    /\ Len(validPoints) > 2
    /\ path' = Append(path, MoveTo(validPoints[1]))
    /\ di' = 1
    /\ drawPc' = "loop"
    /\ UNCHANGED <<curve, validPoints, ctxStyle, ctxStack, strokes, otherVars>>

\* parser.ts:383-394
QuadraticLoop ==
    /\ drawPc = "loop"
    /\ di < Len(validPoints) - 1
    /\ path' = Append(path, QuadraticStep(validPoints, di))
    /\ di' = di + 1
    /\ UNCHANGED <<curve, validPoints, ctxStyle, ctxStack, strokes, drawPc, otherVars>>

\* parser.ts:396-398
QuadraticLast ==
    /\ drawPc = "loop"
    /\ ~(di < Len(validPoints) - 1)
    /\ LET secondLastPoint == validPoints[Len(validPoints) - 1]
           lastPoint == validPoints[Len(validPoints)]
       IN  path' = Append(path, QuadraticCurveTo(secondLastPoint.x, secondLastPoint.y,
                                                 lastPoint.x, lastPoint.y))
    /\ drawPc' = "stroke"
    /\ UNCHANGED <<curve, validPoints, di, ctxStyle, ctxStack, strokes, otherVars>>

\* parser.ts:401-402
StrokeAndRestore ==
    /\ drawPc = "stroke"
    /\ strokes' = Append(strokes, [path |-> path, style |-> ctxStyle,
                                   origin |-> ctxOrigin])
    /\ ctxStyle' = ctxStack[Len(ctxStack)]
    /\ ctxStack' = SubSeq(ctxStack, 1, Len(ctxStack) - 1)
    /\ drawPc' = "done"
    /\ UNCHANGED <<curve, validPoints, di, path, otherVars>>

---------------------------------------------------------------------------
(* renderNotabilityFile (src/parser.ts:299-353) *)

\* parser.ts:307
HalfWidth(c) == Half(IF Truthy(c.width) THEN c.width ELSE Num(2 * Scale))

EmptyBox == [minX |-> PosInf, minY |-> PosInf, maxX |-> NegInf, maxY |-> NegInf]

\* parser.ts:308-313: the box grown by the points of one curve
RECURSIVE GrowBox(_, _, _)
GrowBox(b, pts, halfWidth) ==
    IF pts = <<>> THEN b
    ELSE GrowBox([minX |-> MathMin(b.minX, Minus(Head(pts).x, halfWidth)),
                  minY |-> MathMin(b.minY, Minus(Head(pts).y, halfWidth)),
                  maxX |-> MathMax(b.maxX, Add(Head(pts).x, halfWidth)),
                  maxY |-> MathMax(b.maxY, Add(Head(pts).y, halfWidth))],
                 Tail(pts), halfWidth)

\* parser.ts:304-314
RECURSIVE ContentBox(_, _)
ContentBox(b, cvs) ==
    IF cvs = <<>> THEN b
    ELSE ContentBox(GrowBox(b, Head(cvs).points, HalfWidth(Head(cvs))), Tail(cvs))

NoCrop == [left |-> Num(0), top |-> Num(0), right |-> Num(0), bottom |-> Num(0)]

\* the crop with the far sides measured from the origin
CropOfFarFromOrigin(doc, b, enabled) ==
    LET horizontal == enabled /\ isFinite(b.minX) /\ isFinite(b.maxX)
        vertical == enabled /\ isFinite(b.minY) /\ isFinite(b.maxY)
    IN  [left |-> IF horizontal THEN MathMax(Num(0), b.minX) ELSE Num(0),
         right |-> IF horizontal THEN MathMax(Num(0), b.maxX) ELSE Num(0),
         top |-> IF vertical THEN MathMax(Num(0), b.minY) ELSE Num(0),
         bottom |-> IF vertical THEN MathMax(Num(0), b.maxY) ELSE Num(0)]

\* parser.ts:316-331
CropOf(doc, b, enabled) ==
    LET horizontal == enabled /\ isFinite(b.minX) /\ isFinite(b.maxX)
        vertical == enabled /\ isFinite(b.minY) /\ isFinite(b.maxY)
    IN  [left |-> IF horizontal THEN MathMax(Num(0), b.minX) ELSE Num(0),
         right |-> IF horizontal THEN MathMax(Num(0), Minus(doc.width, b.maxX))
                   ELSE Num(0),
         top |-> IF vertical THEN MathMax(Num(0), b.minY) ELSE Num(0),
         bottom |-> IF vertical THEN MathMax(Num(0), Minus(doc.height, b.maxY))
                    ELSE Num(0)]

\* parser.ts:333-334
CroppedSize(doc, c) ==
    [width |-> MathMax(Num(Scale), Minus(Minus(doc.width, c.left), c.right)),
     height |-> MathMax(Num(Scale), Minus(Minus(doc.height, c.top), c.bottom))]

\* the value a canvas keeps of a dimension assigned to it (an unsigned long:
\* the fraction is dropped, NaN and the infinities give 0); the values
\* assigned are never below 1
CanvasDimension(x) ==
    IF x.k # "num" THEN 0
    ELSE IF x.t < 0 /\ x.v % Scale = 0 THEN (x.v \div Scale) - 1
         ELSE x.v \div Scale

Event(op, args) == [op |-> op, args |-> args]

\* the translation left out
TranslationByNothing(c) == Point(Num(0), Num(0))

\* parser.ts:348: the arguments of ctx.translate
Translation(c) == Point(Negate(c.left), Negate(c.top))

\* curves handed to renderNotabilityFile:
\*   (1,1) (5,2) of width 2^-49;  (1,1) (5,2) (850.5,2.5) of width 4;
\*   (0,0) (2,0) of width 0;  the single point (3,3);  (3,+Infinity) (1,2);
\*   (NaN,1) (1,2);  (2,2) (2,4) of width 0.25;  (3,3) (760,3) of width 240;
\*   (-3,-1.5) (1,2)
RenderCurveSamples ==
    LET red == Rgba(255, 0, 0, 255)
        C(pts, w) == [points |-> pts, width |-> w, color |-> red]
    IN  { C(<<Point(Num(8), Num(8)), Point(Num(40), Num(16))>>, Fine(0, 4)),
          C(<<Point(Num(8), Num(8)), Point(Num(40), Num(16)),
              Point(Num(6804), Num(20))>>, Num(32)),
          C(<<Point(Num(0), Num(0)), Point(Num(16), Num(0))>>, Num(0)),
          C(<<Point(Num(24), Num(24))>>, Num(32)),
          C(<<Point(Num(24), PosInf), Point(Num(8), Num(16))>>, Num(32)),
          C(<<Point(NaN, Num(8)), Point(Num(8), Num(16))>>, Num(32)),
          C(<<Point(Num(16), Num(16)), Point(Num(16), Num(32))>>, Num(2)),
          C(<<Point(Num(24), Num(24)), Point(Num(6080), Num(24))>>, Num(1920)),
          C(<<Point(Num(-24), Num(-12)), Point(Num(8), Num(16))>>, Num(32)) }

\* a document of the curves cvs, sized as extractCurveData sizes it
DocumentOf(cvs) == [curves |-> cvs] @@ DocumentSize(cvs)

NoCurve == [points |-> <<>>, width |-> Num(0), color |-> EmptyString]

InitRender ==
    /\ \E cvs \in SeqsUpTo(RenderCurveSamples, MaxDocCurves) :
          /\ Len(cvs) > 0
          /\ noteData = DocumentOf(cvs)
    /\ cropToContent \in BOOLEAN
    /\ hasContext \in BOOLEAN
    /\ box = EmptyBox
    /\ crop = NoCrop
    /\ cropped = [width |-> Num(0), height |-> Num(0)]
    /\ canvas = [width |-> 300, height |-> 150]
    /\ ctxOrigin = Point(Num(0), Num(0))
    /\ ci = 0
    /\ events = <<>>
    /\ renderPc = "start"
    /\ curve = NoCurve
    /\ validPoints = <<>>
    /\ di = 0
    /\ ctxStyle = DefaultStyle
    /\ ctxStack = <<>>
    /\ path = <<>>
    /\ strokes = <<>>
    /\ drawPc = "idle"

renderInputs == <<noteData, cropToContent, hasContext>>
baseVars == <<decodeVars, colorVars, extractVars, searchVars, parseVars, fieldVars,
              viewVars>>

\* parser.ts:304-314
MeasureContent ==
    /\ renderPc = "start"
    /\ box' = ContentBox(EmptyBox, noteData.curves)
    /\ renderPc' = "measured"
    /\ UNCHANGED <<renderInputs, crop, cropped, canvas, ctxOrigin, ci, events,
                   drawVars, baseVars>>

\* parser.ts:316-334
ComputeCrop ==
    /\ renderPc = "measured"
    /\ crop' = CropOf(noteData, box, cropToContent)
    /\ cropped' = CroppedSize(noteData, crop')
    /\ renderPc' = "cropped"
    /\ UNCHANGED <<renderInputs, box, canvas, ctxOrigin, ci, events, drawVars, baseVars>>

\* parser.ts:336-337
SizeCanvas ==
    /\ renderPc = "cropped"
    /\ canvas' = [width |-> CanvasDimension(cropped.width),
                  height |-> CanvasDimension(cropped.height)]
    /\ events' = Append(events, Event("size", <<cropped.width, cropped.height>>))
    /\ renderPc' = "sized"
    /\ UNCHANGED <<renderInputs, box, crop, cropped, ctxOrigin, ci, drawVars, baseVars>>

\* parser.ts:339-340
ThrowNoContext ==
    /\ renderPc = "sized"
    /\ ~hasContext
    /\ renderPc' = "threw"
    /\ UNCHANGED <<renderInputs, box, crop, cropped, canvas, ctxOrigin, ci, events,
                   drawVars, baseVars>>

\* parser.ts:342-346
FillBackground ==
    /\ renderPc = "sized"
    /\ hasContext
    /\ events' = Append(events, Event("fillRect",
                                      <<"white", ctxOrigin, 0, 0, canvas.width,
                                        canvas.height>>))
    /\ renderPc' = "filled"
    /\ UNCHANGED <<renderInputs, box, crop, cropped, canvas, ctxOrigin, ci,
                   drawVars, baseVars>>

\* parser.ts:348
Translate ==
    /\ renderPc = "filled"
    /\ ctxOrigin' = Point(Add(ctxOrigin.x, Translation(crop).x),
                          Add(ctxOrigin.y, Translation(crop).y))
    /\ events' = Append(events, Event("translate", Translation(crop)))
    /\ ci' = 0
    /\ renderPc' = "drawing"
    /\ UNCHANGED <<renderInputs, box, crop, cropped, canvas, drawVars, baseVars>>

\* parser.ts:350-351: the call of drawCurve for the next curve
CallDrawCurve ==
    /\ renderPc = "drawing"
    /\ drawPc \in {"idle", "done"}
    /\ ci < Len(noteData.curves)
    /\ curve' = noteData.curves[ci + 1]
    /\ validPoints' = <<>>
    /\ di' = 0
    /\ drawPc' = "start"
    /\ events' = Append(events, Event("drawCurve", ci))
    /\ ci' = ci + 1
    /\ UNCHANGED <<renderInputs, box, crop, cropped, canvas, ctxOrigin, renderPc,
                   ctxStyle, ctxStack, path, strokes, baseVars>>

\* parser.ts:350-353
FinishRender ==
    /\ renderPc = "drawing"
    /\ drawPc \in {"idle", "done"}
    /\ ~(ci < Len(noteData.curves))
    /\ renderPc' = "done"
    /\ UNCHANGED <<renderInputs, box, crop, cropped, canvas, ctxOrigin, ci, events,
                   drawVars, baseVars>>

---------------------------------------------------------------------------
(* parseNoteFile (src/parser.ts:8-30, src/main.ts:168-190) *)

\* a string is the sequence of its characters
SessionPlist == <<"s", "e", "s", "s", "i", "o", "n", ".", "p", "l", "i", "s", "t">>
SlashSessionPlist == <<"/">> \o SessionPlist

\* String.prototype.toLowerCase on the letters of the entry names
LowerCase(c) ==
    CASE c = "S" -> "s" [] c = "E" -> "e" [] c = "I" -> "i" [] c = "O" -> "o"
      [] c = "N" -> "n" [] c = "P" -> "p" [] c = "L" -> "l" [] c = "T" -> "t"
      [] c = "M" -> "m" [] c = "Y" -> "y" [] OTHER -> c

toLowerCase(str) == [k \in 1..Len(str) |-> LowerCase(str[k])]

\* String.prototype.endsWith
endsWith(str, suffix) ==
    /\ Len(suffix) <= Len(str)
    /\ SubSeq(str, Len(str) - Len(suffix) + 1, Len(str)) = suffix

\* the test with the separator left out of the suffix
IsSessionPlistAnySuffix(fileName) ==
    endsWith(toLowerCase(fileName), SessionPlist)

\* parser.ts:15-16
IsSessionPlist(fileName) ==
    LET lowerFileName == toLowerCase(fileName)
    IN  endsWith(lowerFileName, SlashSessionPlist) \/ lowerFileName = SessionPlist

\* Array.prototype.join(', ')
RECURSIVE Join(_)
Join(names) ==
    IF names = <<>> THEN <<>>
    ELSE IF Len(names) = 1 THEN Head(names)
    ELSE Head(names) \o <<",", " ">> \o Join(Tail(names))

\* entry names: Session.plist, session.plist, Note/Session.plist,
\* note/SESSION.PLIST, Note/MySession.plist, Note/Session.plist.bak, Note/,
\* Note/a.png
EntryNames ==
    LET S == <<"S", "e", "s", "s", "i", "o", "n", ".", "p", "l", "i", "s", "t">>
        N == <<"N", "o", "t", "e", "/">>
    IN  { S,
          SessionPlist,
          N \o S,
          <<"n", "o", "t", "e", "/">>
             \o <<"S", "E", "S", "S", "I", "O", "N", ".", "P", "L", "I", "S", "T">>,
          N \o <<"M", "y">> \o S,
          N \o S \o <<".", "b", "a", "k">>,
          N,
          N \o <<"a", ".", "p", "n", "g">> }

\* the entries of an archive: distinct names in entry order
Archives ==
    { a \in SeqsUpTo(EntryNames, MaxEntries) :
         \A j, k \in 1..Len(a) : j # k => a[j] # a[k] }

NoFile == <<>>
NotParsed == [error |-> "", detail |-> <<>>]

\* bytes that are no zip archive, or an archive whose Session.plist holds
\* garbage, a plist without curve data, or a plist with curve data
InitParse ==
    /\ \/ archive = [zip |-> FALSE, names |-> <<>>, content |-> "garbage"]
       \/ \E a \in Archives, c \in {"garbage", "no curves", "curves"} :
             archive = [zip |-> TRUE, names |-> a, content |-> c]
    /\ allFiles = <<>>
    /\ fi = 0
    /\ sessionPlistFile = NoFile
    /\ plistDecodes = 0
    /\ parseOut = NotParsed
    /\ parsePc = "start"

baseAndRender == <<decodeVars, colorVars, extractVars, searchVars, drawVars, renderVars,
                   fieldVars, viewVars>>

\* parser.ts:9: JSZip.loadAsync rejects
RejectLoad ==
    /\ parsePc = "start"
    /\ ~archive.zip
    /\ parseOut' = [error |-> "JSZip: not a zip file", detail |-> <<>>]
    /\ parsePc' = "threw"
    /\ UNCHANGED <<archive, allFiles, fi, sessionPlistFile, plistDecodes, baseAndRender>>

\* parser.ts:9-12
LoadArchive ==
    /\ parsePc = "start"
    /\ archive.zip
    /\ allFiles' = archive.names
    /\ sessionPlistFile' = NoFile
    /\ fi' = 0
    /\ parsePc' = "scan"
    /\ UNCHANGED <<archive, plistDecodes, parseOut, baseAndRender>>

\* parser.ts:14-16: an entry that is not chosen
ScanSkip ==
    /\ parsePc = "scan"
    /\ fi < Len(allFiles)
    /\ ~IsSessionPlist(allFiles[fi + 1])
    /\ fi' = fi + 1
    /\ UNCHANGED <<archive, allFiles, sessionPlistFile, plistDecodes, parseOut,
                   parsePc, baseAndRender>>

\* parser.ts:14-19: the entry chosen, and the break
ScanSelect ==
    /\ parsePc = "scan"
    /\ fi < Len(allFiles)
    /\ IsSessionPlist(allFiles[fi + 1])
    /\ sessionPlistFile' = allFiles[fi + 1]
    /\ parsePc' = "scanned"
    /\ UNCHANGED <<archive, allFiles, fi, plistDecodes, parseOut, baseAndRender>>

\* parser.ts:14: the loop ends without a match
ScanEnd ==
    /\ parsePc = "scan"
    /\ ~(fi < Len(allFiles))
    /\ parsePc' = "scanned"
    /\ UNCHANGED <<archive, allFiles, fi, sessionPlistFile, plistDecodes, parseOut,
                   baseAndRender>>

\* parser.ts:22-24
ThrowNotFound ==
    /\ parsePc = "scanned"
    /\ sessionPlistFile = NoFile
    /\ parseOut' = [error |-> "Session.plist not found in .note file. Available files: ",
                    detail |-> Join(allFiles)]
    /\ parsePc' = "threw"
    /\ UNCHANGED <<archive, allFiles, fi, sessionPlistFile, plistDecodes, baseAndRender>>

\* parser.ts:26-27 and 116-120: parseBinaryPlist throws
DecodeThrows ==
    /\ parsePc = "scanned"
    /\ sessionPlistFile # NoFile
    /\ archive.content = "garbage"
    /\ plistDecodes' = plistDecodes + 1
    /\ parseOut' = [error |-> "Could not parse plist file: ", detail |-> <<>>]
    /\ parsePc' = "threw"
    /\ UNCHANGED <<archive, allFiles, fi, sessionPlistFile, baseAndRender>>

\* parser.ts:26-27
DecodePlist ==
    /\ parsePc = "scanned"
    /\ sessionPlistFile # NoFile
    /\ archive.content # "garbage"
    /\ plistDecodes' = plistDecodes + 1
    /\ parsePc' = "decoded"
    /\ UNCHANGED <<archive, allFiles, fi, sessionPlistFile, parseOut, baseAndRender>>

\* parser.ts:29: extractCurveData throws
ExtractThrows ==
    /\ parsePc = "decoded"
    /\ archive.content = "no curves"
    /\ parseOut' = [error |-> "No curve data found in plist", detail |-> <<>>]
    /\ parsePc' = "threw"
    /\ UNCHANGED <<archive, allFiles, fi, sessionPlistFile, plistDecodes, baseAndRender>>

\* parser.ts:29
ReturnNote ==
    /\ parsePc = "decoded"
    /\ archive.content = "curves"
    /\ parsePc' = "returned"
    /\ UNCHANGED <<archive, allFiles, fi, sessionPlistFile, plistDecodes, parseOut,
                   baseAndRender>>

---------------------------------------------------------------------------
(* extractCurveData: the lookup of the four fields (src/parser.ts:179-187) *)

\* the casing variants of each field, in the order they are tried
Variants ==
    [points |-> <<"curvespoints", "curvesPoints", "CurvesPoints">>,
     numPoints |-> <<"curvesnumpoints", "curvesNumPoints", "CurvesNumPoints">>,
     widths |-> <<"curveswidth", "curvesWidth", "CurvesWidth">>,
     colors |-> <<"curvescolors", "curvesColors", "CurvesColors">>]

Fields == {"points", "numPoints", "widths", "colors"}
KeyNames == { Variants[f][n] : f \in Fields, n \in 1..3 }

\* the value of a property: undefined when the record has no such key, the
\* empty string, or a blob
Absent == [tag |-> "absent"]
EmptyText == [tag |-> "empty"]

\* the truth value JavaScript gives a property value
TruthyValue(v) == v.tag \notin {"absent", "empty"}

\* the value as an argument of decodeData
AsData(v) == IF TruthyValue(v) THEN v ELSE Falsy

\* a || b || c taking the first variant that is there, whatever its value
FirstPresentOf(rec, keys) ==
    IF rec[keys[1]] # Absent THEN rec[keys[1]]
    ELSE IF rec[keys[2]] # Absent THEN rec[keys[2]]
    ELSE rec[keys[3]]

\* parser.ts:179-182: rec[keys[1]] || rec[keys[2]] || rec[keys[3]]
FirstTruthyOf(rec, keys) ==
    IF TruthyValue(rec[keys[1]]) THEN rec[keys[1]]
    ELSE IF TruthyValue(rec[keys[2]]) THEN rec[keys[2]]
    ELSE rec[keys[3]]

\* the blob stored under variant n (1, 2, 3) of a field: the one element 1.0,
\* 2.5 or 0.0 (as Int32: 1065353216, 1075838976, 0)
BlobOfVariant(n) ==
    ArrayBufferOf(CASE n = 1 -> <<0, 0, 128, 63>>
                    [] n = 2 -> <<0, 0, 32, 64>>
                    [] OTHER -> <<0, 0, 0, 0>>)

\* the place of a key among the variants of its field
VariantOf(key) == CHOOSE n \in 1..3 : \E f \in Fields : Variants[f][n] = key

\* the record with the keys of present, those of empty holding the empty
\* string and the others the blob of their variant
RecordOf(present, empty) ==
    [key \in KeyNames |->
        IF key \notin present THEN Absent
        ELSE IF key \in empty THEN EmptyText
        ELSE BlobOfVariant(VariantOf(key))]

\* the sets of at most MaxKeys curve keys
KeySets == { K \in SUBSET KeyNames : Cardinality(K) <= MaxKeys }

\* a record such as the search returns: one of the curves-points variants is
\* truthy (parser.ts:138)
IsLocated(rec) == \E n \in 1..3 : TruthyValue(rec[Variants.points[n]])

NoValues == [f \in Fields |-> Absent]
NoArrays == [f \in Fields |-> Returned(<<>>)]

InitFields ==
    /\ \E present \in KeySets : \E empty \in SUBSET present :
          /\ located = RecordOf(present, empty)
          /\ IsLocated(located)
    /\ picked = NoValues
    /\ decodedFields = NoArrays
    /\ fieldsPc = "located"

allButFields == <<decodeVars, colorVars, extractVars, searchVars, drawVars,
                  renderVars, parseVars, viewVars>>

\* parser.ts:179-182
PickFields ==
    /\ fieldsPc = "located"
    /\ picked' = [f \in Fields |-> FirstTruthyOf(located, Variants[f])]
    /\ fieldsPc' = "picked"
    /\ UNCHANGED <<located, decodedFields, allButFields>>

TypeOfField(f) == IF f \in {"points", "widths"} THEN "float" ELSE "int"

\* parser.ts:184-187
DecodeFields ==
    /\ fieldsPc = "picked"
    /\ decodedFields' = [f \in Fields |-> decodeData(AsData(picked[f]), TypeOfField(f))]
    /\ fieldsPc' = "decoded"
    /\ UNCHANGED <<located, picked, allButFields>>

---------------------------------------------------------------------------
(* NotabilityView: render and setState (src/main.ts:39-119, 357-367) *)

\* this.file: null or a file of the vault
NoTFile == 0
TFiles == {1, 2}

Renders == 1..MaxRenders

\* an element made by activation r of render()
Element(cls, r, text) == [cls |-> cls, by |-> r, text |-> text]

\* main.ts:67-69: the div that holds the canvas (main.ts:71-73)
CanvasContainer(r) == Element("notability-canvas-container", r, "")

\* main.ts:75-78
Loading(r) == Element("notability-loading", r, "")

\* main.ts:86-89
ErrorEl(r, error) == Element("notability-error", r, "Error: " \o error.message)

\* new Error(message), and the errors the libraries reject with
Error(message) == [name |-> "Error", message |-> message]

\* el.remove(): the element leaves its parent, if it has one
Remove(els, el) == SelectSeq(els, LAMBDA x : x # el)

\* the catch block without loading.remove()
CatchKeepingLoading(els, r, error) == Append(els, ErrorEl(r, error))

\* main.ts:85-89: loading.remove(); container.createEl('div', ...)
CatchBlock(els, r, error) == Append(Remove(els, Loading(r)), ErrorEl(r, error))

\* the messages of the errors parseBinaryPlist and extractCurveData throw
\* (main.ts:199, 204, 239, 253, 285), the TypeError being that of
\* plistObj.$objects on a null root
ParseMessages ==
    {"Could not parse plist file: Invalid binary plist",
     "Cannot read properties of null (reading '$objects')",
     "No curve data found in plist",
     "No valid curve data decoded",
     "No valid curves created from data"}

NoError == [name |-> "", message |-> ""]
\* history: overlaps, the activations that had not returned when this one
\* began
NotBegun == [pc |-> "none", error |-> NoError, painted |-> FALSE, overlaps |-> {}]

InitView ==
    /\ file = NoTFile
    /\ contentChildren = <<>>
    /\ activations = [r \in Renders |-> NotBegun]
    /\ started = 0
    /\ viewPc = "constructed"
    /\ createdEls = <<>>

allButView == <<decodeVars, colorVars, extractVars, searchVars, drawVars,
                renderVars, parseVars, fieldVars>>

\* main.ts:58-81 and 93-100: render() up to the first await, which suspends
\* it on vault.readBinary
BeginRender ==
    LET r == started + 1
    IN  /\ started < MaxRenders
        /\ started' = r
        /\ contentChildren' = <<CanvasContainer(r), Loading(r)>>
        /\ createdEls' = createdEls \o <<CanvasContainer(r), Loading(r)>>
        /\ activations' =
              [activations EXCEPT
                  ![r].pc = "readBinary",
                  ![r].overlaps = { q \in 1..started :
                                      activations[q].pc \notin {"rendered", "failed"} }]

\* main.ts:39-53: onOpen while this.file is null
OnOpenWithoutFile ==
    /\ viewPc = "constructed"
    /\ file = NoTFile
    /\ viewPc' = "opened"
    /\ UNCHANGED <<file, contentChildren, activations, started, createdEls, allButView>>

\* main.ts:39-55
OnOpen ==
    /\ viewPc = "constructed"
    /\ file # NoTFile
    /\ viewPc' = "opened"
    /\ BeginRender
    /\ UNCHANGED <<file, allButView>>

\* main.ts:357-363: state.file names a file of the vault
SetState(f) ==
    /\ viewPc \in {"constructed", "opened"}
    /\ file' = f
    /\ BeginRender
    /\ UNCHANGED <<viewPc, allButView>>

Reached(r, pc) == activations[r].pc = pc

\* the activation moves on, the elements stay
Goes(r, pc) ==
    /\ activations' = [activations EXCEPT ![r].pc = pc]
    /\ UNCHANGED <<file, contentChildren, started, viewPc, createdEls, allButView>>

\* an error is thrown and travels to the catch of render (main.ts:83)
Throws(r, message) ==
    /\ activations' = [activations EXCEPT ![r].pc = "catch", ![r].error = Error(message)]
    /\ UNCHANGED <<file, contentChildren, started, viewPc, createdEls, allButView>>

\* main.ts:100
ReadBinaryRejects(r) == Reached(r, "readBinary") /\ Throws(r, "ENOENT: no such file or directory")

\* main.ts:100-101, 169
ReadBinaryResolves(r) == Reached(r, "readBinary") /\ Goes(r, "loadAsync")

\* main.ts:169
LoadAsyncRejects(r) ==
    Reached(r, "loadAsync") /\ Throws(r, "Can't find end of central directory : is this a zip file ?")

\* main.ts:169-184
SessionPlistNotFound(r) ==
    Reached(r, "loadAsync")
    /\ Throws(r, "Session.plist not found in .note file. Available files: metadata.plist")

\* main.ts:169-186
SessionPlistFound(r) == Reached(r, "loadAsync") /\ Goes(r, "async")

\* main.ts:186
EntryAsyncRejects(r) == Reached(r, "async") /\ Throws(r, "Corrupted zip : CRC32 mismatch")

\* main.ts:186-189: parseBinaryPlist or extractCurveData throws
ParseThrows(r, message) == Reached(r, "async") /\ Throws(r, message)

\* main.ts:186-189 and 101
ParseReturns(r) == Reached(r, "async") /\ Goes(r, "parsed")

\* main.ts:103-107
GetContextNull(r) == Reached(r, "parsed") /\ Throws(r, "Could not get canvas context")

\* main.ts:103-118: the canvas of this activation is sized and painted
PaintCanvas(r) ==
    /\ Reached(r, "parsed")
    /\ activations' = [activations EXCEPT ![r].pc = "painted", ![r].painted = TRUE]
    /\ UNCHANGED <<file, contentChildren, started, viewPc, createdEls, allButView>>

\* main.ts:82: loading.remove(), and render() returns
RemoveLoading(r) ==
    /\ Reached(r, "painted")
    /\ contentChildren' = Remove(contentChildren, Loading(r))
    /\ activations' = [activations EXCEPT ![r].pc = "rendered"]
    /\ UNCHANGED <<file, started, viewPc, createdEls, allButView>>

\* main.ts:83-90, and render() returns
CatchError(r) ==
    /\ Reached(r, "catch")
    /\ contentChildren' = CatchBlock(contentChildren, r, activations[r].error)
    /\ createdEls' = Append(createdEls, ErrorEl(r, activations[r].error))
    /\ activations' = [activations EXCEPT ![r].pc = "failed"]
    /\ UNCHANGED <<file, started, viewPc, allButView>>

---------------------------------------------------------------------------
(* Idle components *)

IdleView ==
    /\ file = NoTFile
    /\ contentChildren = <<>>
    /\ activations = [r \in Renders |-> NotBegun]
    /\ started = 0
    /\ viewPc = "idle"
    /\ createdEls = <<>>

IdleFields ==
    /\ located = [key \in KeyNames |-> Absent]
    /\ picked = NoValues
    /\ decodedFields = NoArrays
    /\ fieldsPc = "idle"

IdleParse ==
    /\ archive = [zip |-> FALSE, names |-> <<>>, content |-> "garbage"]
    /\ allFiles = <<>>
    /\ fi = 0
    /\ sessionPlistFile = NoFile
    /\ plistDecodes = 0
    /\ parseOut = NotParsed
    /\ parsePc = "idle"

IdleRender ==
    /\ noteData = [curves |-> <<>>, width |-> Num(0), height |-> Num(0)]
    /\ cropToContent = FALSE
    /\ hasContext = FALSE
    /\ box = EmptyBox
    /\ crop = NoCrop
    /\ cropped = [width |-> Num(0), height |-> Num(0)]
    /\ canvas = [width |-> 300, height |-> 150]
    /\ ctxOrigin = Point(Num(0), Num(0))
    /\ ci = 0
    /\ events = <<>>
    /\ renderPc = "idle"

IdleRest == IdleRender /\ IdleParse /\ IdleFields /\ IdleView

IdleDraw ==
    /\ curve = [points |-> <<>>, width |-> Num(0), color |-> EmptyString]
    /\ validPoints = <<>>
    /\ di = 0
    /\ ctxStyle = DefaultStyle
    /\ ctxStack = <<>>
    /\ path = <<>>
    /\ strokes = <<>>
    /\ drawPc = "idle"

IdleSearch ==
    /\ graph = <<>>
    /\ root = NotObject
    /\ stack = <<>>
    /\ visited = {}
    /\ curveData = NotObject
    /\ searchOut = ""
    /\ searchPc = "idle"
    /\ expanded = <<>>
    /\ calls = 0

IdleExtract ==
    /\ pointsData = <<>>
    /\ numPoints = <<>>
    /\ widths = <<>>
    /\ colors = <<>>
    /\ i = 0
    /\ pointIndex = 0
    /\ curves = <<>>
    /\ origin = <<>>
    /\ extractOut = NoOutcome
    /\ extractPc = "idle"

IdleDecode ==
    /\ data = Falsy
    /\ type = "int"
    /\ decodeOut = Returned(<<>>)
    /\ decodePc = "idle"

IdleColor ==
    /\ rgbaBytes = <<0, 0, 0, 0>>
    /\ rgba = 0
    /\ color = NoColor
    /\ colorPc = "idle"

---------------------------------------------------------------------------
(* Specifications *)

NextDecode == DecodeCall
DecodeStart == InitDecode /\ IdleColor /\ IdleExtract /\ IdleSearch /\ IdleDraw /\ IdleRest
SpecDecode == DecodeStart /\ [][NextDecode]_vars

NextColor == ReadColor \/ ConvertColor
ColorStart == InitColor /\ IdleDecode /\ IdleExtract /\ IdleSearch /\ IdleDraw /\ IdleRest
SpecColor == ColorStart /\ [][NextColor]_vars

NextExtract ==
    \/ ThrowNoData
    \/ EnterLoop
    \/ SkipCount
    \/ BuildCurve
    \/ ThrowNoCurves
    \/ ReturnDocument
ExtractStart == InitExtract /\ IdleDecode /\ IdleColor /\ IdleSearch /\ IdleDraw /\ IdleRest
SpecExtract == ExtractStart /\ [][NextExtract]_vars

SizeStart == InitSize /\ IdleDecode /\ IdleColor /\ IdleSearch /\ IdleDraw /\ IdleRest
SpecSize == SizeStart /\ [][NextExtract]_vars

NextSearch ==
    \/ ThrowInvalidPlist
    \/ CallSearch
    \/ ReturnTooDeep
    \/ ReturnNotObject
    \/ ReturnVisited
    \/ ReturnMatch
    \/ Expand
    \/ DescendArray
    \/ DescendDict
    \/ ReturnExhausted
    \/ ThrowNoCurveData
SearchStart == InitSearch /\ IdleDecode /\ IdleColor /\ IdleExtract /\ IdleDraw /\ IdleRest
SpecSearch == SearchStart /\ [][NextSearch]_vars
SpecSearchFair == SpecSearch /\ WF_vars(NextSearch)

NextDraw ==
    \/ ReturnFewPoints
    \/ BeginCurve
    \/ RestoreFewValid
    \/ DrawLine
    \/ MoveToFirst
    \/ QuadraticLoop
    \/ QuadraticLast
    \/ StrokeAndRestore
DrawStart == InitDraw /\ IdleDecode /\ IdleColor /\ IdleExtract /\ IdleSearch /\ IdleRest
SpecDraw == DrawStart /\ [][NextDraw]_vars

NextRender ==
    \/ MeasureContent
    \/ ComputeCrop
    \/ SizeCanvas
    \/ ThrowNoContext
    \/ FillBackground
    \/ Translate
    \/ CallDrawCurve
    \/ FinishRender
    \/ ReturnFewPoints
    \/ BeginCurve
    \/ RestoreFewValid
    \/ DrawLine
    \/ MoveToFirst
    \/ QuadraticLoop
    \/ QuadraticLast
    \/ StrokeAndRestore
RenderStart ==
    InitRender /\ IdleDecode /\ IdleColor /\ IdleExtract /\ IdleSearch /\ IdleParse /\ IdleFields
    /\ IdleView
SpecRender == RenderStart /\ [][NextRender]_vars

NextParse ==
    \/ RejectLoad
    \/ LoadArchive
    \/ ScanSkip
    \/ ScanSelect
    \/ ScanEnd
    \/ ThrowNotFound
    \/ DecodeThrows
    \/ DecodePlist
    \/ ExtractThrows
    \/ ReturnNote
ParseStart ==
    InitParse /\ IdleDecode /\ IdleColor /\ IdleExtract /\ IdleSearch /\ IdleDraw /\ IdleRender
    /\ IdleFields /\ IdleView
SpecParse == ParseStart /\ [][NextParse]_vars

NextFields == PickFields \/ DecodeFields
FieldsStart ==
    InitFields /\ IdleDecode /\ IdleColor /\ IdleExtract /\ IdleSearch /\ IdleDraw /\ IdleRender
    /\ IdleParse /\ IdleView
SpecFields == FieldsStart /\ [][NextFields]_vars

NextView ==
    \/ OnOpenWithoutFile
    \/ OnOpen
    \/ \E f \in TFiles : SetState(f)
    \/ \E r \in Renders :
          \/ ReadBinaryRejects(r)
          \/ ReadBinaryResolves(r)
          \/ LoadAsyncRejects(r)
          \/ SessionPlistNotFound(r)
          \/ SessionPlistFound(r)
          \/ EntryAsyncRejects(r)
          \/ \E message \in ParseMessages : ParseThrows(r, message)
          \/ ParseReturns(r)
          \/ GetContextNull(r)
          \/ PaintCanvas(r)
          \/ RemoveLoading(r)
          \/ CatchError(r)
ViewStart ==
    InitView /\ IdleDecode /\ IdleColor /\ IdleExtract /\ IdleSearch /\ IdleDraw /\ IdleRender
    /\ IdleParse /\ IdleFields
SpecView == ViewStart /\ [][NextView]_vars

---------------------------------------------------------------------------
(* Claims about decodeData *)

IsBlob(d) == d.tag \in {"ArrayBuffer", "Uint8Array"}

\* C2: decodeData on a byte buffer of 4k+r bytes (r < 4), for either kind,
\* returns exactly k elements and never throws.
C2_DecodeYieldsCompleteElements ==
    (decodePc = "done" /\ IsBlob(data)) =>
        /\ ~decodeOut.threw
        /\ Len(decodeOut.value) = Len(BlobBytes(data)) \div 4

\* what does hold: a buffer of exactly 4k bytes decodes to k elements
DecodeOfWholeElements ==
    (decodePc = "done" /\ IsBlob(data) /\ Len(BlobBytes(data)) % 4 = 0) =>
        /\ ~decodeOut.threw
        /\ Len(decodeOut.value) = Len(BlobBytes(data)) \div 4

\* and a buffer with trailing bytes makes the typed array constructor throw
DecodeOfTrailingBytesThrows ==
    (decodePc = "done" /\ IsBlob(data) /\ Len(BlobBytes(data)) % 4 # 0) =>
        decodeOut.threw

---------------------------------------------------------------------------
(* Claims about rgbaIntToColor *)

\* C6: for the 32-bit value with bytes b0 (lowest) .. b3 (highest): zero gives
\* opaque black; b3 = 0 with a nonzero lower byte gives r=b3, g=b2, b=b1,
\* a=b0/255; anything else gives r=b0, g=b1, b=b2, a=b3/255; r, g, b lie in
\* 0..255 and a in [0,1], also for negative Int32 values.
C6_ColorDecoding ==
    colorPc = "done" =>
        LET b0 == rgbaBytes[1]
            b1 == rgbaBytes[2]
            b2 == rgbaBytes[3]
            b3 == rgbaBytes[4]
        IN  /\ (b0 = 0 /\ b1 = 0 /\ b2 = 0 /\ b3 = 0) =>
                    color = Rgba(0, 0, 0, 255)
            /\ (b3 = 0 /\ (b0 # 0 \/ b1 # 0 \/ b2 # 0)) =>
                    color = Rgba(b3, b2, b1, b0)
            /\ b3 # 0 => color = Rgba(b0, b1, b2, b3)
            /\ color.r \in 0..255 /\ color.g \in 0..255 /\ color.b \in 0..255
            /\ color.a255 \in 0..255

\* the swapped-order fallback has been taken for 0x000000FF
C6_Witness ==
    /\ colorPc = "done"
    /\ rgbaBytes = <<1, 128, 255, 0>>
    /\ color = Rgba(0, 255, 128, 1)

\* a negative Int32 has been decoded
NegativeColorDecoded ==
    colorPc = "done" /\ rgba < 0 /\ color.a255 = rgbaBytes[4]

---------------------------------------------------------------------------
(* Claims about extractCurveData *)

\* the sum of the positive counts at indices below idx
RECURSIVE PositiveSum(_)
PositiveSum(idx) ==
    IF idx = 0 THEN 0
    ELSE PositiveSum(idx - 1) + (IF numPoints[idx] > 0 THEN numPoints[idx] ELSE 0)

\* a coordinate that is present and is a number other than NaN
IsValidCoordinate(c) == c.k \in {"num", "inf", "ninf"}

\* the pair at pair position pos (from 0) of the points array
PairAt(pos) == Point(At(pointsData, 2 * pos), At(pointsData, 2 * pos + 1))

\* the valid pairs at pair positions lo .. lo+n-1, in their order
ValidPairs(lo, n) ==
    LET window == [k \in 1..(IF n > 0 THEN n ELSE 0) |-> PairAt(lo + k - 1)]
        valid(p) == IsValidCoordinate(p.x) /\ IsValidCoordinate(p.y)
    IN  SelectSeq(window, valid)

\* the valid pairs the counts entry at index idx (from 0) consumes
WindowOf(idx) == ValidPairs(PositiveSum(idx), numPoints[idx + 1])

\* C1: the cursor is driven by the counts alone: before counts index i is
\* processed it equals the sum of the positive counts below i, and the curve
\* built from index k holds exactly the valid pairs (both coordinates present
\* and not NaN) at pair positions [S_k, S_k + n_k), in their order.
C1_CursorDrivenByCounts ==
    /\ pointIndex = PositiveSum(i)
    /\ \A c \in 1..Len(curves) : curves[c].points = WindowOf(origin[c])

\* a pair with a NaN was consumed by a curve that was dropped, and the next
\* curve starts right after that curve's positions
C1_Witness ==
    /\ extractPc = "returned"
    /\ numPoints = <<2, 2>>
    /\ isNaN(pointsData[3])
    /\ origin = <<1>>
    /\ pointIndex = 4
    /\ curves[1].points = <<PairAt(2), PairAt(3)>>

\* C3: no point of any curve of the document has a NaN or infinite
\* coordinate.
C3_NoNonFiniteCoordinate ==
    \A c \in 1..Len(curves) : \A k \in 1..Len(curves[c].points) :
        isFinite(curves[c].points[k].x) /\ isFinite(curves[c].points[k].y)

\* what does hold: no coordinate of the document is NaN or missing
NoNaNCoordinate ==
    \A c \in 1..Len(curves) : \A k \in 1..Len(curves[c].points) :
        /\ IsValidCoordinate(curves[c].points[k].x)
        /\ IsValidCoordinate(curves[c].points[k].y)

\* C4: every curve has at least 2 points; a counts entry whose pairs leave
\* fewer than 2 valid points (any count of 1 among them) gives no curve; the
\* curves appear in increasing order of their counts index.
C4_AtLeastTwoPoints ==
    /\ \A c \in 1..Len(curves) :
          /\ Len(curves[c].points) >= 2
          /\ numPoints[origin[c] + 1] # 1
    /\ \A k \in 0..(i - 1) :
          Len(WindowOf(k)) < 2 => \A c \in 1..Len(origin) : origin[c] # k
    /\ \A c, d \in 1..Len(origin) : c < d => origin[c] < origin[d]
    /\ Len(origin) = Len(curves)

\* a count of 1 over a valid pair gave no curve, and the curve after it did
C4_Witness ==
    /\ extractPc = "returned"
    /\ numPoints = <<1, 2>>
    /\ Len(WindowOf(0)) = 1
    /\ origin = <<1>>

\* two curves in the order of their counts
TwoCurvesInOrder == extractPc = "returned" /\ origin = <<0, 1>>

\* the width the claim gives the curve of counts index idx
WidthIfFinite(idx) ==
    IF isFinite(At(widths, idx)) THEN At(widths, idx) ELSE Num(2 * Scale)

\* the width the code gives it
WidthIfNonZero(idx) ==
    LET w == At(widths, idx)
    IN  IF w.k = "undefined" \/ w.k = "nan" \/ w = Num(0) THEN Num(2 * Scale) ELSE w

\* C5 as stated: the curve built from counts index k has width widths[k]
\* when that entry is present and finite and 2.0 otherwise, and the colour
\* decoded from colors[k] (0 when absent).
C5_WidthFiniteOrDefault ==
    \A c \in 1..Len(curves) :
        /\ curves[c].width = WidthIfFinite(origin[c])
        /\ curves[c].color = rgbaIntToColor(ColorOrZero(colors, origin[c]))

\* C5 amended: the curve built from counts index k has width widths[k] when
\* that entry is present and is neither 0 nor NaN, and 2.0 otherwise, and the
\* colour decoded from colors[k] (0 when absent); k is the counts index, not
\* the position in the output.
C5_WidthNonZeroOrDefault ==
    \A c \in 1..Len(curves) :
        /\ curves[c].width = WidthIfNonZero(origin[c])
        /\ curves[c].color = rgbaIntToColor(ColorOrZero(colors, origin[c]))

\* the first output curve comes from counts index 1 and carries widths[1] and
\* colors[1], which differ from widths[0] and colors[0]
C5_Witness ==
    /\ extractPc = "returned"
    /\ origin = <<1>>
    /\ widths = <<Num(32), Num(48)>>
    /\ curves[1].width = Num(48)
    /\ curves[1].color = Rgba(0, 0, 0, 255)
    /\ colors[1] # colors[2]

\* no counts entry has two valid pairs in its window
AssemblesNothing == \A k \in 0..(Len(numPoints) - 1) : Len(WindowOf(k)) < 2

\* C7: extractCurveData throws, returning no document, exactly when the
\* points array is empty, the counts array is empty or no curve is
\* assembled; a returned document has at least one curve.
C7_FailsExactlyWhenNoCurves ==
    LET nothing == Len(pointsData) = 0 \/ Len(numPoints) = 0 \/ AssemblesNothing
    IN  /\ extractPc = "threw" => nothing /\ extractOut.error # ""
        /\ extractPc = "returned" =>
              ~nothing /\ extractOut.error = "" /\ Len(curves) >= 1
        /\ (extractPc = "loop" /\ i >= Len(numPoints)) =>
              (nothing <=> ENABLED ThrowNoCurves)

\* both arrays hold data and yet no curve is assembled
C7_Witness ==
    /\ extractPc = "threw"
    /\ Len(pointsData) >= 4
    /\ \E k \in 1..Len(numPoints) : numPoints[k] > 0
    /\ extractOut.error = "No valid curves created from data"

---------------------------------------------------------------------------
(* Claims about searchForCurveData *)

SearchEnded == searchPc \in {"located", "threw"}

\* the first non-null entry of row at the indices cs, in the order of cs
RECURSIVE FirstAmong(_, _, _)
FirstAmong(cs, k, row) ==
    IF k > Len(cs) THEN NotObject
    ELSE IF cs[k] # NotObject /\ row[cs[k]] # NotObject THEN row[cs[k]]
    ELSE FirstAmong(cs, k + 1, row)

\* entries 1..n of the row of depth d, given the row of depth d + 1: entry v
\* is the first object with the key met in depth-first pre-order from v
\* (children in their order) when v stands at depth d and nothing deeper than
\* MaxDepth is entered
RECURSIVE RowUpTo(_, _)
RowUpTo(n, below) ==
    IF n = 0 THEN <<>>
    ELSE Append(RowUpTo(n - 1, below),
                IF graph[n].kind = "dict" /\ graph[n].key THEN n
                ELSE FirstAmong(graph[n].children, 1, below))

RECURSIVE PreorderRow(_)
PreorderRow(d) ==
    IF d > MaxDepth THEN [n \in DOMAIN graph |-> NotObject]
    ELSE RowUpTo(Len(graph), PreorderRow(d + 1))

\* the first object with the key in depth-first pre-order from v at depth 0
PreorderFirst(v) == IF v = NotObject THEN NotObject ELSE PreorderRow(0)[v]

\* C8: searchForCurveData returns the first object, in depth-first pre-order
\* from the root (children in index / enumeration order) restricted to depths
\* 0..15, that contains one of the curves-points keys (null when none does).
C8_ReturnsFirstInPreorder ==
    (SearchEnded /\ root # NotObject) => curveData = PreorderFirst(root)

\* what does hold: the value returned is null or an object with the key that
\* the search visited
ReturnsVisitedObjectWithKey ==
    (SearchEnded /\ curveData # NotObject) =>
        HasCurvesPoints(graph, curveData) /\ curveData \in visited

\* the number of child slots of all objects
RECURSIVE TotalSlots(_)
TotalSlots(ids) ==
    IF ids = {} THEN 0
    ELSE LET n == CHOOSE n \in ids : TRUE
         IN  Len(graph[n].children) + TotalSlots(ids \ {n})

\* C9: the search terminates on every value graph, shared sub-trees and
\* reference cycles included: every object is expanded at most once, the
\* number of calls and the recursion depth are bounded, no state short of the
\* end is stuck, a search that finds nothing ends in the error
\* 'No curve data found in plist' with a null result, and (the steps being
\* taken one after the other) every search ends.
SearchBounded ==
    /\ \A a, b \in 1..Len(expanded) : a # b => expanded[a] # expanded[b]
    /\ searchPc # "idle" => calls <= 1 + TotalSlots(DOMAIN graph)
    /\ Len(stack) <= MaxDepth + 2
    /\ searchPc \in {"start", "search"} => ENABLED NextSearch
    /\ searchPc = "located" => HasCurvesPoints(graph, curveData)
    /\ (searchPc = "threw" /\ root # NotObject) =>
          curveData = NotObject /\ searchOut = "No curve data found in plist"

C9_SearchTerminates == []SearchBounded /\ <>SearchEnded

\* a graph in which a visited object refers to itself and no object has the
\* key: the search ended with the not-found error
C9_Witness ==
    /\ searchPc = "threw"
    /\ root # NotObject
    /\ \E n \in visited : \E k \in 1..Len(graph[n].children) : graph[n].children[k] = n
    /\ \A n \in DOMAIN graph : ~HasCurvesPoints(graph, n)
    /\ searchOut = "No curve data found in plist"

\* the objects reachable from the root by a path of at most d steps
RECURSIVE WithinSteps(_)
WithinSteps(d) ==
    IF d = 0 THEN {root} \ {NotObject}
    ELSE LET near == WithinSteps(d - 1)
         IN  near \cup { c \in DOMAIN graph :
                           \E n \in near : \E k \in 1..Len(graph[n].children) :
                               graph[n].children[k] = c }

\* C17: whenever a dictionary with a curves-points key is reachable from the
\* root by a path of at most 15 steps, the search returns a record and not
\* null, also when objects are shared and first reached along a longer path.
C17_SearchComplete ==
    (SearchEnded /\ \E n \in WithinSteps(MaxDepth) : HasCurvesPoints(graph, n)) =>
        curveData # NotObject

\* what does hold: the search is complete on graphs of at most 16 objects,
\* where no object can be first met deeper than 15
SearchCompleteOnSmallGraphs ==
    (SearchEnded /\ Cardinality(DOMAIN graph) <= MaxDepth + 1
       /\ \E n \in WithinSteps(MaxDepth) : HasCurvesPoints(graph, n)) =>
        curveData # NotObject

---------------------------------------------------------------------------
(* Claims about drawCurve *)

\* the midpoint of two points
Midpoint(a, b) == Point(Half(Add(a.x, b.x)), Half(Add(a.y, b.y)))

QuadraticTo(control, end) ==
    [op |-> "quadraticCurveTo", cx |-> control.x, cy |-> control.y,
     x |-> end.x, y |-> end.y]

\* the path of the valid points p
PathOf(p) ==
    LET n == Len(p)
    IN  CASE n < 2 -> <<>>
          [] n = 2 -> <<MoveTo(p[1]), LineTo(p[2])>>
          [] OTHER ->
                <<MoveTo(p[1])>>
                \o [k \in 1..(n - 2) |-> QuadraticTo(p[k + 1], Midpoint(p[k + 1], p[k + 2]))]
                \o <<QuadraticTo(p[n - 1], p[n])>>

ValidPointsOf(c) == SelectSeq(c.points, IsDrawable)

\* C10: for the n valid points p of a curve drawCurve emits nothing when
\* n < 2; MoveTo(p0), LineTo(p1) when n = 2; and when n >= 3 MoveTo(p0), then
\* for i = 1 .. n-2 QuadraticTo{control p[i], end midpoint(p[i], p[i+1])}, then
\* QuadraticTo{control p[n-2], end p[n-1]}: n segments from p0 to p[n-1].
C10_PathOfCurve ==
    drawPc = "done" =>
        LET p == ValidPointsOf(curve)
        IN  /\ path = PathOf(p)
            /\ Len(p) >= 3 =>
                  /\ Len(path) = Len(p)
                  /\ path[1] = MoveTo(p[1])
                  /\ path[Len(path)].x = p[Len(p)].x
                  /\ path[Len(path)].y = p[Len(p)].y

\* a curve of four valid points and an invalid one was drawn
C10_Witness ==
    /\ drawPc = "done"
    /\ Len(curve.points) = 4
    /\ Len(ValidPointsOf(curve)) = 3
    /\ Len(path) = 3
    /\ Len(strokes) = 1

---------------------------------------------------------------------------
(* Claims about the document size *)

\* the greatest of one coordinate over the points, -Infinity when there are none
RECURSIVE Greatest(_, _)
Greatest(pts, axis) ==
    IF pts = <<>> THEN NegInf
    ELSE MathMax(IF axis = "x" THEN Head(pts).x ELSE Head(pts).y,
                 Greatest(Tail(pts), axis))

\* x >= n for an integer n
AtLeast(x, n) ==
    \/ x.k = "inf"
    \/ x.k = "num" /\ (x.v > n * Scale \/ (x.v = n * Scale /\ x.t >= 0))

\* C12: the document returned by extractCurveData has
\* width = max(ceil(max x over all output points) + 50, 800) and
\* height = max(ceil(max y over all output points) + 50, 1000), the maxima over
\* the raw coordinates of all output curves; the size is never below 800 x 1000.
C12_DocumentSize ==
    extractPc = "returned" =>
        /\ extractOut.width =
              MathMax(Plus(MathCeil(Greatest(AllPoints(curves), "x")), 50 * Scale),
                      Num(800 * Scale))
        /\ extractOut.height =
              MathMax(Plus(MathCeil(Greatest(AllPoints(curves), "y")), 50 * Scale),
                      Num(1000 * Scale))
        /\ AtLeast(extractOut.width, 800)
        /\ AtLeast(extractOut.height, 1000)

\* a document of width 901 (from x = 850.5) and height 1251 (from y = 1200.25)
\* was returned, one of its points having negative coordinates
C12_Witness ==
    /\ extractPc = "returned"
    /\ extractOut.width = Num(901 * Scale)
    /\ extractOut.height = Num(1251 * Scale)
    /\ \E k \in 1..Len(AllPoints(curves)) : AllPoints(curves)[k].x = Num(-24)

---------------------------------------------------------------------------
(* Claims about the crop rectangle *)

Range(f) == { f[k] : k \in DOMAIN f }

\* one coordinate of every point of the document, less and plus half the
\* stroke width of its curve
Expanded(doc, axis) ==
    UNION { UNION { { Minus(IF axis = "x" THEN p.x ELSE p.y, HalfWidth(c)),
                      Add(IF axis = "x" THEN p.x ELSE p.y, HalfWidth(c)) }
                    : p \in Range(c.points) }
            : c \in Range(doc.curves) }

AllFinite(S) == S # {} /\ \A e \in S : isFinite(e)
LeastOf(S) == CHOOSE m \in S : \A e \in S : MathMin(m, e) = m
GreatestOf(S) == CHOOSE m \in S : \A e \in S : MathMax(m, e) = m

NonNegative(x) == x.k = "inf" \/ (x.k = "num" /\ (x.v > 0 \/ (x.v = 0 /\ x.t >= 0)))

CropComputed == renderPc \in {"cropped", "sized", "threw", "filled", "drawing", "done"}

\* the crop rectangle of the claim on one axis
AxisCrop(S, extent) ==
    [near |-> MathMax(Num(0), LeastOf(S)),
     far |-> MathMax(Num(0), Minus(extent, GreatestOf(S)))]

\* C11: the crop rectangle is all zeros when cropToContent is false or the
\* width-expanded content box is not finite; otherwise left = max(0, min_x),
\* right = max(0, width - max_x), top = max(0, min_y),
\* bottom = max(0, height - max_y), the minima and maxima over every point
\* expanded by half its curve's stroke width; the four components are >= 0 and
\* the canvas size is max(1, width - left - right) by
\* max(1, height - top - bottom).
C11_CropRectangle ==
    CropComputed =>
        LET ex == Expanded(noteData, "x")
            ey == Expanded(noteData, "y")
            finite == AllFinite(ex) /\ AllFinite(ey)
        IN  /\ (~cropToContent \/ ~finite) => crop = NoCrop
            /\ (cropToContent /\ finite) =>
                  /\ crop.left = AxisCrop(ex, noteData.width).near
                  /\ crop.right = AxisCrop(ex, noteData.width).far
                  /\ crop.top = AxisCrop(ey, noteData.height).near
                  /\ crop.bottom = AxisCrop(ey, noteData.height).far
            /\ \A side \in {crop.left, crop.right, crop.top, crop.bottom} :
                  NonNegative(side)
            /\ cropped.width =
                  MathMax(Num(Scale), Minus(Minus(noteData.width, crop.left), crop.right))
            /\ cropped.height =
                  MathMax(Num(Scale), Minus(Minus(noteData.height, crop.top), crop.bottom))

\* each axis is cropped by itself: its two components follow the formulas when
\* cropToContent is set and the box is finite on that axis, and are zero
\* otherwise
CropAxisByAxis ==
    CropComputed =>
        LET ex == Expanded(noteData, "x")
            ey == Expanded(noteData, "y")
        IN  /\ IF cropToContent /\ AllFinite(ex)
               THEN /\ crop.left = AxisCrop(ex, noteData.width).near
                    /\ crop.right = AxisCrop(ex, noteData.width).far
               ELSE crop.left = Num(0) /\ crop.right = Num(0)
            /\ IF cropToContent /\ AllFinite(ey)
               THEN /\ crop.top = AxisCrop(ey, noteData.height).near
                    /\ crop.bottom = AxisCrop(ey, noteData.height).far
               ELSE crop.top = Num(0) /\ crop.bottom = Num(0)

\* the crop rectangle of a document whose box is not finite on the y axis
CropsOneAxis ==
    /\ CropComputed
    /\ ~AllFinite(Expanded(noteData, "y"))
    /\ crop.right # Num(0)

---------------------------------------------------------------------------
(* Claims about the calls renderNotabilityFile makes *)

\* the calls of a whole rendering, in order
ExpectedEvents ==
    <<Event("size", <<cropped.width, cropped.height>>),
      Event("fillRect", <<"white", Point(Num(0), Num(0)), 0, 0,
                          CanvasDimension(cropped.width),
                          CanvasDimension(cropped.height)>>),
      Event("translate", Point(Negate(crop.left), Negate(crop.top)))>>
    \o [k \in 1..Len(noteData.curves) |-> Event("drawCurve", k - 1)]

IsPrefix(a, b) == Len(a) <= Len(b) /\ \A k \in 1..Len(a) : a[k] = b[k]

\* the paths stroked for the curves cvs: one for each curve of two or more
\* valid points, in order
RECURSIVE StrokedPaths(_)
StrokedPaths(cvs) ==
    IF cvs = <<>> THEN <<>>
    ELSE (IF Len(ValidPointsOf(Head(cvs))) >= 2
          THEN <<PathOf(ValidPointsOf(Head(cvs)))>> ELSE <<>>)
         \o StrokedPaths(Tail(cvs))

\* C15: the calls on canvas and context are, in this order: the canvas size,
\* one white fill of the whole canvas issued with the origin untranslated, the
\* translation by (-crop.left, -crop.top), the curves in document order; no
\* stroke comes before the fill or the translation.
C15_EventOrder ==
    /\ IsPrefix(events, ExpectedEvents)
    /\ renderPc = "done" => events = ExpectedEvents
    /\ Len(strokes) > 0 => Len(events) >= 4
    /\ \A k \in 1..Len(strokes) :
          strokes[k].origin = Point(Negate(crop.left), Negate(crop.top))
    /\ IsPrefix([k \in 1..Len(strokes) |-> strokes[k].path],
                StrokedPaths(noteData.curves))
    /\ renderPc = "done" => Len(strokes) = Len(StrokedPaths(noteData.curves))

\* a cropped document of two curves was rendered to the end with a left crop
\* of 1 - 2^-50 (the curve (1,1) (5,2) of width 2^-49 twice, or with another)
C15_Witness ==
    /\ renderPc = "done"
    /\ Len(noteData.curves) = 2
    /\ Len(strokes) = 2
    /\ crop.left # Num(0)
    /\ Len(events) = 5

---------------------------------------------------------------------------
(* Claims about the state drawCurve leaves *)

\* the curves drawCurve was called for that have two or more valid points
DrawableCalled ==
    { k \in 1..ci : Len(ValidPointsOf(noteData.curves[k])) >= 2 }

\* C20: every call of drawCurve returns with the save/restore stack as deep as
\* it found it and the style it found, on each of its four paths, and strokes
\* at most once, exactly when the curve has two or more valid points.
C20_StackAndStroke ==
    renderPc = "drawing" =>
        /\ Len(ctxStack) <= 1
        /\ Len(strokes) <= Cardinality(DrawableCalled)
        /\ drawPc \in {"idle", "done"} =>
              /\ ctxStack = <<>>
              /\ ctxStyle = DefaultStyle
              /\ Len(strokes) = Cardinality(DrawableCalled)

\* drawCurve has returned from the second of two calls, the first for a curve
\* with one valid point of two (restore without stroke), the second stroked
C20_Witness ==
    /\ renderPc = "drawing"
    /\ drawPc = "done"
    /\ ci = 2
    /\ Len(noteData.curves[1].points) = 2
    /\ Len(ValidPointsOf(noteData.curves[1])) = 1
    /\ Len(strokes) = 1

---------------------------------------------------------------------------
(* Claims about the cropped canvas *)

\* a <= b for finite a and b, as real numbers
Leq(a, b) == a.v < b.v \/ (a.v = b.v /\ a.t <= b.t)

\* a - b for finite a and b, as a real number (no rounding)
ExactMinus(a, b) == Fine(a.v - b.v, a.t - b.t)

\* a + b for finite a and b, as a real number (no rounding)
ExactPlus(a, b) == Fine(a.v + b.v, a.t + b.t)

\* every coordinate finite and non-negative, every stored width positive
PlainDocument ==
    \A c \in Range(noteData.curves) :
        /\ c.width.k = "inf" \/ (c.width.k = "num" /\ ~Leq(c.width, Num(0)))
        /\ \A p \in Range(c.points) :
              /\ isFinite(p.x) /\ Leq(Num(0), p.x)
              /\ isFinite(p.y) /\ Leq(Num(0), p.y)

\* every point, translated, lies within the cropped size widened by slack
PointsInside(slack) ==
    \A c \in Range(noteData.curves) : \A p \in Range(c.points) :
        /\ Leq(Num(0), ExactMinus(p.x, crop.left))
        /\ Leq(ExactMinus(p.x, crop.left), ExactPlus(cropped.width, slack.width))
        /\ Leq(Num(0), ExactMinus(p.y, crop.top))
        /\ Leq(ExactMinus(p.y, crop.top), ExactPlus(cropped.height, slack.height))

NotLarger ==
    /\ Leq(cropped.width, noteData.width)
    /\ Leq(cropped.height, noteData.height)

NoSlack == [width |-> Num(0), height |-> Num(0)]

\* 2^-51 of the document size, in units of 2^-51
RoundingSlack ==
    [width |-> Fine(0, noteData.width.v \div Scale),
     height |-> Fine(0, noteData.height.v \div Scale)]

\* C19 as stated: with cropToContent set, finite non-negative coordinates and
\* positive stroke widths, every point translated by (-crop.left, -crop.top)
\* has 0 <= x - crop.left <= croppedWidth and 0 <= y - crop.top <= croppedHeight,
\* and the cropped size is not larger than the document size.
C19_PointsInsideExactly ==
    (CropComputed /\ cropToContent /\ PlainDocument) =>
        PointsInside(NoSlack) /\ NotLarger

\* C19: with cropToContent set, finite non-negative coordinates and positive
\* stroke widths, every point translated by (-crop.left, -crop.top) has
\* 0 <= x - crop.left <= croppedWidth + width * 2^-51 and
\* 0 <= y - crop.top <= croppedHeight + height * 2^-51 (the rounding of the
\* additions and subtractions that give the cropped size), and the cropped
\* size is not larger than the document size.
C19_PointsInsideUpToRounding ==
    (CropComputed /\ cropToContent /\ PlainDocument) =>
        PointsInside(RoundingSlack) /\ NotLarger

\* a cropped document of two curves, one of stroke width 2^-49, cropped on
\* three sides, whose right-most point lies 2^-50 beyond the cropped width
C19_Witness ==
    /\ renderPc = "done"
    /\ cropToContent
    /\ PlainDocument
    /\ Len(noteData.curves) = 2
    /\ \E c \in Range(noteData.curves) : c.width = Fine(0, 4)
    /\ crop.left # Num(0)
    /\ crop.right # Num(0)
    /\ crop.top # Num(0)
    /\ ~PointsInside(NoSlack)
    /\ PointsInside(RoundingSlack)

---------------------------------------------------------------------------
(* Claims about parseNoteFile *)

\* the entries before position k (from 1) of which none satisfies Test
NoneBefore(Test(_), k) == \A j \in 1..(k - 1) : ~Test(allFiles[j])

Scanned == parsePc \in {"scanned", "decoded", "returned", "threw"} /\ archive.zip

\* C13 as stated: the entry chosen is the first, in entry order, whose path
\* lower-cased equals or ends with session.plist; when there is none the call
\* fails with an error that lists every entry name, and decodes no plist.
C13_FirstSessionPlistAnySuffix ==
    Scanned =>
        /\ sessionPlistFile # NoFile =>
              \E k \in 1..Len(allFiles) :
                 /\ sessionPlistFile = allFiles[k]
                 /\ IsSessionPlistAnySuffix(allFiles[k])
                 /\ NoneBefore(IsSessionPlistAnySuffix, k)
        /\ (\A k \in 1..Len(allFiles) : ~IsSessionPlistAnySuffix(allFiles[k])) =>
              /\ sessionPlistFile = NoFile
              /\ plistDecodes = 0
              /\ parsePc = "threw" => parseOut.detail = Join(allFiles)
        /\ (\E k \in 1..Len(allFiles) : IsSessionPlistAnySuffix(allFiles[k])) =>
              sessionPlistFile # NoFile

\* the path lower-cased is session.plist or ends with /session.plist
NamesSessionPlist(fileName) ==
    LET lower == toLowerCase(fileName)
    IN  \/ lower = SessionPlist
        \/ /\ Len(lower) > Len(SessionPlist)
           /\ lower[Len(lower) - Len(SessionPlist)] = "/"
           /\ \A k \in 1..Len(SessionPlist) :
                 lower[Len(lower) - Len(SessionPlist) + k] = SessionPlist[k]

\* C13: the entry chosen is the first, in entry order, whose path lower-cased
\* equals session.plist or ends with /session.plist; when there is none the
\* call fails with an error that lists every entry name, and decodes no plist.
C13_FirstSessionPlist ==
    Scanned =>
        /\ sessionPlistFile # NoFile =>
              \E k \in 1..Len(allFiles) :
                 /\ sessionPlistFile = allFiles[k]
                 /\ NamesSessionPlist(allFiles[k])
                 /\ NoneBefore(NamesSessionPlist, k)
        /\ (\A k \in 1..Len(allFiles) : ~NamesSessionPlist(allFiles[k])) =>
              /\ sessionPlistFile = NoFile
              /\ plistDecodes = 0
              /\ parsePc \in {"threw", "scanned"}
              /\ parsePc = "threw" =>
                    /\ parseOut.error = "Session.plist not found in .note file. Available files: "
                    /\ parseOut.detail = Join(allFiles)
        /\ (\E k \in 1..Len(allFiles) : NamesSessionPlist(allFiles[k])) =>
              sessionPlistFile # NoFile

\* the second qualifying entry of three was passed over for the first, after
\* an entry that does not qualify
C13_Witness ==
    /\ parsePc = "returned"
    /\ Len(allFiles) = 3
    /\ ~NamesSessionPlist(allFiles[1])
    /\ NamesSessionPlist(allFiles[2])
    /\ NamesSessionPlist(allFiles[3])
    /\ sessionPlistFile = allFiles[2]

\* an archive without a qualifying entry was refused, its names listed
MissingEntryReported ==
    /\ parsePc = "threw"
    /\ Len(allFiles) = 3
    /\ sessionPlistFile = NoFile
    /\ plistDecodes = 0

---------------------------------------------------------------------------
(* Claims about the casing variants *)

\* the variants of field f that are there, whatever they hold
PresentVariants(f) == { n \in 1..3 : located[Variants[f][n]] # Absent }

\* the variants of field f that hold a blob
BlobVariants(f) == { n \in 1..3 : TruthyValue(located[Variants[f][n]]) }

Least(S) == CHOOSE n \in S : \A m \in S : n <= m

\* C14 as stated: for each field the value used is that of the first casing
\* variant present on the record, in the order lowercase, camelCase,
\* PascalCase, and the array decoded is that of this one variant.
C14_FirstPresentVariant ==
    fieldsPc = "decoded" =>
        \A f \in Fields :
            /\ PresentVariants(f) # {} =>
                  /\ picked[f] = located[Variants[f][Least(PresentVariants(f))]]
                  /\ decodedFields[f] =
                        decodeData(AsData(located[Variants[f][Least(PresentVariants(f))]]),
                                   TypeOfField(f))
            /\ PresentVariants(f) = {} => decodedFields[f] = Returned(<<>>)

\* C14: for each field the blob used is that of the first casing variant, in
\* the order lowercase, camelCase, PascalCase, that holds a non-empty value; a
\* variant that is present but empty is passed over like an absent one, and a
\* field without a non-empty variant decodes to no elements; the array decoded
\* is that of one variant alone.
C14_FirstNonEmptyVariant ==
    fieldsPc = "decoded" =>
        \A f \in Fields :
            /\ BlobVariants(f) # {} =>
                  /\ picked[f] = located[Variants[f][Least(BlobVariants(f))]]
                  /\ decodedFields[f] =
                        decodeData(located[Variants[f][Least(BlobVariants(f))]],
                                   TypeOfField(f))
                  /\ Len(decodedFields[f].value) = 1
            /\ BlobVariants(f) = {} => decodedFields[f] = Returned(<<>>)

\* a record with blobs under two variants of the points key, the first of
\* them empty on the num-points key, was decoded
C14_Witness ==
    /\ fieldsPc = "decoded"
    /\ BlobVariants("points") = {2, 3}
    /\ PresentVariants("numPoints") = {1, 3}
    /\ BlobVariants("numPoints") = {3}
    /\ decodedFields.points.value = <<Num(20)>>
    /\ decodedFields.numPoints.value = <<0>>

---------------------------------------------------------------------------
(* Claims about NotabilityView *)

Begun == 1..started
HasReturned(r) == activations[r].pc \in {"rendered", "failed"}

\* the elements of class cls that activation r made, among els
MadeBy(els, r, cls) == SelectSeq(els, LAMBDA x : x.by = r /\ x.cls = cls)

\* C16: an error raised while reading, unzipping, decoding, locating or
\* assembling a note is caught inside render: an activation is never stuck
\* and ends by returning, the value caught is an error with a message, the
\* loading indicator of an activation that returned is no longer in the view
\* whether it succeeded or failed, and an activation that failed has added
\* exactly one error element (one that succeeded, none), which carries the
\* message of the error.
C16_RenderCatchesErrors ==
    \A r \in Renders :
        /\ r \in Begun <=> activations[r].pc # "none"
        /\ (r \in Begun /\ ~HasReturned(r)) =>
              \/ ENABLED RemoveLoading(r)
              \/ ENABLED CatchError(r)
              \/ ENABLED ReadBinaryResolves(r)
              \/ ENABLED SessionPlistFound(r)
              \/ ENABLED ParseReturns(r)
              \/ ENABLED PaintCanvas(r)
        /\ activations[r].pc \in {"catch", "failed"} <=> activations[r].error # NoError
        /\ HasReturned(r) => Len(MadeBy(contentChildren, r, "notability-loading")) = 0
        /\ activations[r].pc = "rendered" =>
              /\ activations[r].painted
              /\ Len(MadeBy(createdEls, r, "notability-error")) = 0
        /\ activations[r].pc = "failed" =>
              /\ MadeBy(createdEls, r, "notability-error")
                    = <<ErrorEl(r, activations[r].error)>>
              /\ r = started =>
                    MadeBy(contentChildren, r, "notability-error")
                       = <<ErrorEl(r, activations[r].error)>>

\* one activation failed while decoding and another one rendered; the view
\* shows the canvas and the message of the later, failed one
C16_Witness ==
    /\ started = 2
    /\ activations[1].pc = "rendered"
    /\ activations[2].pc = "failed"
    /\ contentChildren =
          <<CanvasContainer(2),
            Element("notability-error", 2, "Error: No curve data found in plist")>>

\* C18: when two activations of render() overlapped and both have returned,
\* in either order and with either outcome, the view holds only elements
\* made by the later one.
C18_OnlyLaterRenderRemains ==
    \A early, late \in Begun :
        (early \in activations[late].overlaps /\ HasReturned(early) /\ HasReturned(late)) =>
            \A k \in 1..Len(contentChildren) : contentChildren[k].by # early

\* what does hold: nothing of an earlier activation remains when it
\* succeeded, and its canvas and loading indicator never remain
OnlyErrorOfEarlierRemains ==
    \A r \in Renders : \A k \in 1..Len(contentChildren) :
        (contentChildren[k].by = r /\ r < started) =>
            /\ contentChildren[k].cls = "notability-error"
            /\ activations[r].pc = "failed"

=============================================================================
